---- MODULE Spec2Model ----
(***************************************************************************)
(* Session indexing core of agent-sessions: the Store (SessionDatabase),   *)
(* the Indexer (SessionIndexer) writing into it statement by statement,    *)
(* the source corpus on disk, a reader, and HybridSearch's embedding cache. *)
(*                                                                         *)
(* The Store connection is opened with isolation_level=None, so every      *)
(* statement a SessionDatabase method executes commits on its own; the     *)
(* steps of SessionIndexer._index_session are therefore separate actions.  *)
(***************************************************************************)
EXTENDS Integers, Sequences, FiniteSets, TLC

\* ------------------------------------------------------------------ bounds

\* The clock runs over 1..MaxTime (whole seconds, as int(time.time())).
MaxTime == 2

\* chunks.id is AUTOINCREMENT: no indexing starts that would pass this id.
MaxChunkId == 6

\* The searches of one process that are followed.
MaxSearches == 2

\* ------------------------------------------------------------- value space

SessionIds == {"p", "c"}

\* The texts generate_summary_sync can return.
SummaryTexts == {"summary one", "summary two"}

\* Python None / SQL NULL for text columns, and a key absent from a JSON object.
Null == "<null>"
Absent == "<absent>"

\* A file mtime ahead of the clock (clock skew, a restored or touched file).
FutureMtime == MaxTime + 1

\* One record of a transcript: the keys the readers look at.  Claude Code
\* lines carry type / uuid / message{role, content}; OpenCode message files
\* carry id / role and their text parts (content).
Line(type, uuid, mrole, mcontent, id, role, content) ==
    [type |-> type, uuid |-> uuid, mrole |-> mrole, mcontent |-> mcontent,
     id |-> id, role |-> role, content |-> content]

CcLine(type, uuid, role, content) ==
    Line(type, uuid, role, content, Absent, Absent, Absent)

OcLine(id, role, content) ==
    Line(Absent, Absent, Absent, Absent, id, role, content)

\* An assistant reply of more than 2000 characters that mentions docker,
\* once, after its 2000th character; and its first 2000 characters.
LongReply == "<2000 characters> docker"
LongReplyHead == "<2000 characters>"

\* A text of 792 characters, and a text with one agent-do command.
MediumText == "<792 characters>"
ToolText == "agent-do browse"

\* Texts of 600,000 and of 1,200,000 characters, and the first 28,000
\* characters of either.
BigText == "<600000 characters>"
HugeText == "<1200000 characters>"
TruncatedText == "<28000 characters>"

\* len(text) of a text of the value space.
Chars(text) ==
    CASE text = LongReply -> 2007
      [] text = BigText -> 600000
      [] text = HugeText -> 1200000
      [] text = TruncatedText -> 28000
      [] text = LongReplyHead -> 2000
      [] text = MediumText -> 792
      [] OTHER -> Len(text)

\* The transcripts a source file can hold.  "cc": a Claude Code JSONL file,
\* "cc2": the same file with one more line; "long": a Claude Code file whose
\* assistant reply is LongReply; "oc": an OpenCode session with
\* per-session message ids; "dup": an OpenCode session whose two messages
\* carry the same id (and so the same parts, which are looked up by id);
\* "bad": an OpenCode session with a message whose role is JSON null;
\* "big": an OpenCode session with a long prompt and a longer reply;
\* "tool": an OpenCode session whose prompt holds an agent-do command.
HarnessOf(kind) ==
    IF kind \in {"cc", "cc2", "long"} THEN "claude-code" ELSE "opencode"

Lines(kind, sid) ==
    CASE kind = "cc"  -> << CcLine("user", "u1", "user", "hello"),
                            CcLine("file-history-snapshot", "u2", Absent, Absent),
                            CcLine("assistant", "u3", "assistant", "ok") >>
      [] kind = "oc"  -> << OcLine("msg_" \o sid \o "1", "user", "hello"),
                            OcLine("msg_" \o sid \o "2", "assistant", "ok") >>
      [] kind = "cc2" -> << CcLine("user", "u1", "user", "hello"),
                            CcLine("file-history-snapshot", "u2", Absent, Absent),
                            CcLine("assistant", "u3", "assistant", "ok"),
                            CcLine("user", "u4", "user", "again") >>
      [] kind = "long" -> << CcLine("user", "u1", "user", "hello"),
                             CcLine("assistant", "u2", "assistant", LongReply) >>
      [] kind = "dup" -> << OcLine("msg_1", "user", "hello"),
                            OcLine("msg_1", "assistant", "hello") >>
      [] kind = "bad" -> << OcLine("msg_" \o sid \o "1", "user", "hello"),
                            OcLine("msg_" \o sid \o "2", Null, "ok") >>
      [] kind = "big" -> << OcLine("msg_" \o sid \o "1", "user", MediumText),
                            OcLine("msg_" \o sid \o "2", "assistant", LongReply),
                            OcLine("msg_" \o sid \o "3", "user", ToolText) >>
      [] kind = "tool" -> << OcLine("msg_" \o sid \o "1", "user", ToolText),
                             OcLine("msg_" \o sid \o "2", "assistant", "ok") >>

\* ------------------------------------------------------- providers (pure)

\* dict.get(key, default)
Get(v, default) == IF v = Absent THEN default ELSE v

\* Python truthiness of an optional string.
Truthy(v) == v \notin {Absent, Null, ""}

Min(ns) == CHOOSE n \in ns : \A k \in ns : n <= k
Max(ns) == CHOOSE n \in ns : \A k \in ns : n >= k

\* extract_text_content on the contents of the value space: a string is
\* returned as it is unless it opens with a system reminder.
extract_text_content(content) ==
    IF content = Absent THEN ""
    ELSE IF content = "<system-reminder>note" THEN ""
    ELSE content

RECURSIVE CcMessagesFrom(_, _, _, _)
CcMessagesFrom(sid, lines, i, acc) ==
    IF i > Len(lines) THEN acc
    ELSE LET data == lines[i]
             role == data.mrole
             content == extract_text_content(data.mcontent)
         IN  IF data.type \notin {"user", "assistant"}
                \/ role \notin {"user", "assistant"}
                \/ content = ""
             THEN CcMessagesFrom(sid, lines, i + 1, acc)
             ELSE CcMessagesFrom(sid, lines, i + 1, Append(acc,
                    [id |-> Get(data.uuid, sid \o "_" \o ToString(Len(acc))),
                     role |-> role, content |-> content]))

\* ClaudeCodeProvider.get_session_messages
ClaudeCodeMessages(sid, lines) == CcMessagesFrom(sid, lines, 1, << >>)

RECURSIVE OcMessagesFrom(_, _, _, _)
OcMessagesFrom(sid, lines, i, acc) ==
    IF i > Len(lines) THEN acc
    ELSE LET msg == lines[i]
             role == Get(msg.role, "")
             content == Get(msg.content, "")
         IN  IF Truthy(content) /\ Truthy(role)
             THEN OcMessagesFrom(sid, lines, i + 1, Append(acc,
                    [id |-> Get(msg.id, "file" \o ToString(i)),
                     role |-> role, content |-> content]))
             ELSE OcMessagesFrom(sid, lines, i + 1, acc)

\* OpenCodeProvider.get_session_messages
OpenCodeMessages(sid, lines) == OcMessagesFrom(sid, lines, 1, << >>)

\* provider.get_session_messages(session): what the provider yields for sid.
ProviderMessages(kind, sid) ==
    IF HarnessOf(kind) = "opencode"
    THEN OpenCodeMessages(sid, Lines(kind, sid))
    ELSE ClaudeCodeMessages(sid, Lines(kind, sid))

FirstWithRole(msgs, role) ==
    LET idx == { i \in 1..Len(msgs) : msgs[i].role = role }
    IN  IF idx = {} THEN "" ELSE msgs[Min(idx)].content

LastWithRole(msgs, role) ==
    LET idx == { i \in 1..Len(msgs) : msgs[i].role = role }
    IN  IF idx = {} THEN "" ELSE msgs[Max(idx)].content

\* provider.parse_session(path) for a file that is present: the Session
\* record.  Claude Code sets no parent_id; OpenCode takes parentID from the
\* session metadata and derives is_child from it.  The time of the last
\* message (modified_time) is taken to be the time the file was written.
parse_session(sid, file) ==
    LET msgs == ProviderMessages(file.kind, sid)
    IN  [id |-> sid,
         harness |-> HarnessOf(file.kind),
         project_path |-> file.project,
         first_prompt |-> FirstWithRole(msgs, "user"),
         last_response |-> LastWithRole(msgs, "assistant"),
         modified_time |-> file.mtime,
         is_child |-> file.parent # Null,
         parent_id |-> file.parent]

\* text[:2000] on the texts of the value space: only LongReply is longer.
Head2000(text) == IF text = LongReply THEN LongReplyHead ELSE text

\* The metadata parse_session hands to MetadataCache.set for the file it
\* parsed: the prompts and the response cut to 2000 characters.  The file
\* stands for the (path, st_mtime) the entry is valid for.
cache_metadata(file, session) ==
    [file |-> file,
     first_prompt |-> Head2000(session.first_prompt),
     last_response |-> Head2000(session.last_response),
     is_child |-> session.is_child,
     parent_id |-> session.parent_id]

\* _session_from_cache: the Session built from a cache entry carries the
\* cached (cut) texts; the other fields are stored and read back as they are.
_session_from_cache(sid, file, cached) ==
    [parse_session(sid, file) EXCEPT !.first_prompt = cached.first_prompt,
                                     !.last_response = cached.last_response,
                                     !.is_child = cached.is_child,
                                     !.parent_id = cached.parent_id]

\* provider.parse_session(path) with its MetadataCache lookup: a hit needs
\* the entry's mtime to be the file's.
parse_session_cached(MC, sid, file) ==
    IF sid \in DOMAIN MC /\ MC[sid].file = file
    THEN [session |-> _session_from_cache(sid, file, MC[sid]), metadata |-> MC]
    ELSE [session |-> parse_session(sid, file),
          metadata |-> (sid :> cache_metadata(file, parse_session(sid, file))) @@ MC]

\* --------------------------------------------------------- indexer (pure)

\* The technology patterns of AutoTagger that match a text of the value space.
TechMentions(text) == IF text = LongReply THEN {"docker"} ELSE {}

\* str.lower on the words and names of the value space.
Lower(atom) ==
    CASE atom = "Harness" -> "harness"
      [] atom = "Droid" -> "droid"
      [] atom = "JWT" -> "jwt"
      [] atom = "Pa" -> "pa"
      [] OTHER -> atom

\* The tags of ACTIVITY_PATTERNS in the order of the table.
ACTIVITY_PATTERNS ==
    << "debugging", "implementing", "refactoring", "testing", "documenting",
       "reviewing", "optimizing", "deploying", "migrating", "integrating" >>

\* "tag_scores[tag] = tag_scores.get(tag, 0) + inc" on a dict kept as the
\* list of its (tag, score) items in insertion order; scores count halves.
Bump(tag_scores, tag, inc) ==
    IF \E i \in DOMAIN tag_scores : tag_scores[i].tag = tag
    THEN [i \in DOMAIN tag_scores |->
            IF tag_scores[i].tag = tag
            THEN [tag |-> tag, score |-> tag_scores[i].score + inc]
            ELSE tag_scores[i]]
    ELSE Append(tag_scores, [tag |-> tag, score |-> inc])

\* One Bump for each tag of a list, in order.
RECURSIVE BumpAll(_, _, _)
BumpAll(tag_scores, tags, inc) ==
    IF tags = << >> THEN tag_scores
    ELSE BumpAll(Bump(tag_scores, Head(tags), inc), Tail(tags), inc)

\* sorted(..., reverse=True) with the last of the best items first.
RECURSIVE sorted_tags_LastOfEqualsFirst(_)
sorted_tags_LastOfEqualsFirst(items) ==
    IF items = << >> THEN << >>
    ELSE LET best == CHOOSE i \in DOMAIN items :
                        \A j \in DOMAIN items :
                           \/ items[i].score > items[j].score
                           \/ items[i].score = items[j].score /\ i >= j
         IN  << items[best] >>
             \o sorted_tags_LastOfEqualsFirst(
                   [j \in 1..(Len(items) - 1) |->
                      IF j < best THEN items[j] ELSE items[j + 1]])

\* "sorted(tag_scores.items(), key=lambda x: x[1], reverse=True)": the sort
\* is stable, and with reverse=True items of equal score keep their order.
RECURSIVE sorted_tags(_)
sorted_tags(items) ==
    IF items = << >> THEN << >>
    ELSE LET best == CHOOSE i \in DOMAIN items :
                        \A j \in DOMAIN items :
                           \/ items[i].score > items[j].score
                           \/ items[i].score = items[j].score /\ i <= j
         IN  << items[best] >>
             \o sorted_tags([j \in 1..(Len(items) - 1) |->
                               IF j < best THEN items[j] ELSE items[j + 1]])

\* AutoTagger.generate_tags from the matches of its patterns in full_text:
\* tools lists the tag of every match of TOOL_PATTERNS (pattern by pattern,
\* match by match), activities is the set of the ACTIVITY_PATTERNS tags that
\* match, techs lists the tag of every match of TECH_PATTERNS.  A tool match
\* scores 2, an activity 1.5, a technology match 1, the project and the
\* harness tag 0.5 each (4, 3, 2, 1 in halves); the first 15 of the sorted
\* items are returned.
tags_of(matches, project_name, harness) ==
    LET tools == BumpAll(<< >>, matches.tools, 4)
        activities ==
            BumpAll(tools,
                    SelectSeq(ACTIVITY_PATTERNS, LAMBDA t : t \in matches.activities),
                    3)
        techs == BumpAll(activities, matches.techs, 2)
        project == IF project_name \notin {Null, ""}
                   THEN Bump(techs, "project:" \o Lower(project_name), 1) ELSE techs
        tag_scores == IF harness \notin {Null, ""}
                      THEN Bump(project, "harness:" \o Lower(harness), 1) ELSE project
        sorted == sorted_tags(tag_scores)
    IN  [i \in 1..(IF Len(sorted) < 15 THEN Len(sorted) ELSE 15) |-> sorted[i].tag]

\* AutoTagger.generate_tags for the sessions of the corpus: the only matches
\* in their prompts, responses and message contents are those of docker.
generate_tags(session, msgs) ==
    LET texts == << session.first_prompt, session.last_response >>
                 \o [i \in 1..Len(msgs) |-> extract_text_content(msgs[i].content)]
        docker == SelectSeq(texts, LAMBDA t : "docker" \in TechMentions(t))
    IN  tags_of([tools |-> << >>, activities |-> {},
                 techs |-> [i \in 1..Len(docker) |-> "docker"]],
                session.project_path, session.harness)

RECURSIVE IndexerMessagesFrom(_, _, _, _, _)
IndexerMessagesFrom(sid, harness, lines, i, acc) ==
    IF i > Len(lines) THEN acc
    ELSE LET msg == lines[i]
             m == IF harness = "opencode"
                  THEN [id |-> Get(msg.id, ""),
                        role |-> Get(msg.role, ""),
                        content |-> Get(msg.content, "")]
                  ELSE [id |-> Get(msg.id, sid \o "_msg_" \o ToString(i - 1)),
                        role |-> Get(msg.role, ""),
                        content |-> Get(msg.content, "")]
         IN  IndexerMessagesFrom(sid, harness, lines, i + 1, Append(acc, m))

\* SessionIndexer._get_session_messages: the indexer reads the source
\* itself (it does not call provider.get_session_messages), and falls back
\* on first_prompt / last_response when it read nothing.
IndexerMessages(session, lines) ==
    LET read == IndexerMessagesFrom(session.id, session.harness, lines, 1, << >>)
        first == IF Truthy(session.first_prompt)
                 THEN << [id |-> session.id \o "_msg_0", role |-> "user",
                          content |-> session.first_prompt] >>
                 ELSE << >>
        last == IF Truthy(session.last_response)
                THEN << [id |-> session.id \o "_msg_1", role |-> "assistant",
                         content |-> session.last_response] >>
                ELSE << >>
    IN  IF read # << >> THEN read ELSE first \o last

\* The MessageRow list _index_session builds: sequence is the position.
MessageRows(sid, msgs) ==
    [i \in 1..Len(msgs) |->
        [id |-> msgs[i].id, session_id |-> sid, role |-> msgs[i].role,
         content |-> msgs[i].content, sequence |-> i - 1]]

TARGET_TOKENS == 400

\* SessionChunker.estimate_tokens of the formatted message "[role]: content"
\* (a null role is formatted as None): len // 4.
estimate_tokens(m) ==
    LET role == IF m.role = Null THEN "None" ELSE m.role
    IN  (Chars(role) + Chars(m.content) + 4) \div 4

\* isinstance(content, str): a JSON null content is not a string.
IsStr(content) == content # Null

\* create_turn_chunks' loop with every message in one chunk, never flushed.
RECURSIVE TurnGroups_NeverFlushed(_, _, _, _)
TurnGroups_NeverFlushed(msgs, i, group, tokens) ==
    IF i > Len(msgs)
    THEN IF group = << >> THEN << >> ELSE << group >>
    ELSE IF ~IsStr(msgs[i].content)
    THEN TurnGroups_NeverFlushed(msgs, i + 1, group, tokens)
    ELSE TurnGroups_NeverFlushed(msgs, i + 1, Append(group, msgs[i]), tokens)

RECURSIVE TurnGroups(_, _, _, _)
\* create_turn_chunks' loop: greedy packing of whole messages; a message
\* whose content is not a string is passed over; a group is flushed when
\* the next message would pass TARGET_TOKENS.  A null role fails the NOT
\* NULL constraint later, it does not stop the chunker.
TurnGroups(msgs, i, group, tokens) ==
    IF i > Len(msgs)
    THEN IF group = << >> THEN << >> ELSE << group >>
    ELSE IF ~IsStr(msgs[i].content)
    THEN TurnGroups(msgs, i + 1, group, tokens)
    ELSE LET t == estimate_tokens(msgs[i])
         IN  IF tokens + t > TARGET_TOKENS /\ group # << >>
             THEN << group >> \o TurnGroups(msgs, i + 1, << msgs[i] >>, t)
             ELSE TurnGroups(msgs, i + 1, Append(group, msgs[i]), tokens + t)

RECURSIVE SumTokens(_)
\* current_tokens of a group: the sum of its messages' estimates.
SumTokens(group) ==
    IF group = << >> THEN 0
    ELSE estimate_tokens(Head(group)) + SumTokens(Tail(group))

\* SessionChunker.create_turn_chunks: one Chunk per group, its metadata with
\* the ids of its messages and current_tokens as token_count.
create_turn_chunks(session_id, msgs, start_index) ==
    LET groups == TurnGroups(msgs, 1, << >>, 0)
    IN  [g \in 1..Len(groups) |->
            [session_id |-> session_id, message_id |-> groups[g][1].id,
             chunk_index |-> start_index + g - 1, chunk_type |-> "turn",
             content |-> [k \in 1..Len(groups[g]) |->
                            << groups[g][k].role, groups[g][k].content >>],
             message_ids |-> [k \in 1..Len(groups[g]) |-> groups[g][k].id],
             token_count |-> SumTokens(groups[g])]]

\* create_summary_chunk's first prompt: the first user message with text.
FirstPrompt(msgs) ==
    LET idx == { i \in 1..Len(msgs) :
                   msgs[i].role = "user" /\ IsStr(msgs[i].content)
                   /\ msgs[i].content # "" }
    IN  IF idx = {} THEN "" ELSE msgs[Min(idx)].content

\* agent_do_pattern on a content of the value space: the tools it names.
AgentDoTools(content) == IF content = ToolText THEN << "browse" >> ELSE << >>

\* SessionChunker.extract_tool_mentions: the tools named in the messages
\* (sorted; the value space knows one tool).
extract_tool_mentions(msgs) ==
    IF \E i \in DOMAIN msgs : AgentDoTools(msgs[i].content) # << >>
    THEN << "browse" >> ELSE << >>

RECURSIVE ToolMessages(_, _)
\* The messages with an agent-do command, in order (one command each).
ToolMessages(msgs, i) ==
    IF i > Len(msgs) THEN << >>
    ELSE IF IsStr(msgs[i].content) /\ AgentDoTools(msgs[i].content) # << >>
    THEN << msgs[i] >> \o ToolMessages(msgs, i + 1)
    ELSE ToolMessages(msgs, i + 1)

\* create_tool_usage_chunks numbering the tool chunks from the index of the
\* last turn chunk, all with the same index.
create_tool_usage_chunks_SameIndex(session_id, msgs, start_index) ==
    LET tms == ToolMessages(msgs, 1)
    IN  [t \in 1..Len(tms) |->
            [session_id |-> session_id, message_id |-> tms[t].id,
             chunk_index |-> start_index - 1, chunk_type |-> "tool_usage",
             embedding |-> << >>,
             content |-> << AgentDoTools(tms[t].content), tms[t].content >>]]

\* SessionChunker.create_tool_usage_chunks: one chunk per agent-do command.
create_tool_usage_chunks(session_id, msgs, start_index) ==
    LET tms == ToolMessages(msgs, 1)
    IN  [t \in 1..Len(tms) |->
            [session_id |-> session_id, message_id |-> tms[t].id,
             chunk_index |-> start_index + t - 1, chunk_type |-> "tool_usage",
             embedding |-> << >>,
             content |-> << AgentDoTools(tms[t].content), tms[t].content >>]]

\* SessionChunker.chunk_session: the summary chunk (index 0), then the turn
\* chunks, then the tool_usage chunks.  A chunk's content stands for its
\* text; the metadata column is left out of the rows.
chunk_session(session, msgs) ==
    LET summary == [session_id |-> session.id, message_id |-> Null,
                    chunk_index |-> 0, chunk_type |-> "summary",
                    embedding |-> << >>,
                    content |-> << session.project_path, FirstPrompt(msgs),
                                   extract_tool_mentions(msgs) >>]
        turns == create_turn_chunks(session.id, msgs, 1)
    IN  << summary >> \o
        [g \in 1..Len(turns) |->
            [session_id |-> session.id, message_id |-> turns[g].message_id,
             chunk_index |-> turns[g].chunk_index, chunk_type |-> "turn",
             embedding |-> << >>,
             content |-> turns[g].content]] \o
        create_tool_usage_chunks(session.id, msgs, 1 + Len(turns))

\* EmbeddingGenerator.embed_chunks: with the embedder available each chunk
\* gets the embedding of its content, otherwise the chunks come back as they
\* are (embedding None).  The embedding of a text stands for its vector.
embed_chunks(avail, chks) ==
    IF ~avail THEN chks
    ELSE [i \in 1..Len(chks) |->
            [chks[i] EXCEPT !.embedding = << chks[i].content >>]]

\* EmbeddingGenerator._initialize_client with the key ignored.
_initialize_client_IgnoresKey(has_openai, api_key, ctor_ok) ==
    has_openai /\ ctor_ok

\* EmbeddingGenerator._initialize_client: what available is after
\* construction, given whether the openai package is installed, the value of
\* OPENAI_API_KEY (Null when unset) and whether OpenAI(api_key=...) returns.
_initialize_client(has_openai, api_key, ctor_ok) ==
    IF ~has_openai THEN FALSE
    ELSE IF api_key \in {Null, ""} THEN FALSE
    ELSE ctor_ok

\* embed_texts, "texts = [t[:MAX_CHARS] for t in texts]"
MAX_CHARS == 28000
Truncated(text) ==
    IF Chars(text) > MAX_CHARS THEN TruncatedText ELSE text

\* EmbeddingGenerator.embed_texts: a list of None as long as texts without
\* an embedder or texts and when the API call raises, else one embedding
\* per text.  calls is the number of remote calls made.
embed_texts(avail, api_ok, texts) ==
    IF ~avail \/ texts = << >>
    THEN [value |-> [i \in 1..Len(texts) |-> << >>], calls |-> 0]
    ELSE IF ~api_ok
    THEN [value |-> [i \in 1..Len(texts) |-> << >>], calls |-> 1]
    ELSE [value |-> [i \in 1..Len(texts) |-> << Truncated(texts[i]) >>],
          calls |-> 1]

\* BATCH_SIZE, and MAX_BATCH_TOKENS of embed_chunks
BATCH_SIZE == 100
MAX_BATCH_TOKENS == 250000

\* "est_tokens = len(chunk.content) // 4", summed over chunks a..b (by
\* halves, to keep the evaluation shallow).
RECURSIVE current_tokens(_, _, _)
current_tokens(chks, a, b) ==
    IF a > b THEN 0
    ELSE IF a = b THEN Chars(chks[a].content) \div 4
    ELSE current_tokens(chks, a, (a + b) \div 2)
         + current_tokens(chks, (a + b) \div 2 + 1, b)

\* embed_chunks, "Build token-aware batches": the batches of the chunks from
\* start on.  The loop appends the chunk at start to the empty batch, and
\* closes the batch before the first later chunk k whose est_tokens added to
\* those of the batch pass MAX_BATCH_TOKENS; that chunk starts the next.
RECURSIVE TokenBatches(_, _)
TokenBatches(chks, start) ==
    IF start > Len(chks) THEN << >>
    ELSE LET closes == { k \in (start + 1)..Len(chks) :
                           current_tokens(chks, start, k - 1)
                             + current_tokens(chks, k, k) > MAX_BATCH_TOKENS }
             last == IF closes = {} THEN Len(chks)
                     ELSE (CHOOSE k \in closes : \A j \in closes : k <= j) - 1
         IN  << SubSeq(chks, start, last) >> \o TokenBatches(chks, last + 1)

\* embed_chunks with the count-based limit dropped: a token batch is sent whole.
SubBatches_Whole(batch) ==
    << batch >>

\* embed_chunks, "for sub_start in range(0, len(batch), BATCH_SIZE)": the
\* slices batch[sub_start:sub_start + BATCH_SIZE].
SubBatches(batch) ==
    [k \in 1..((Len(batch) + BATCH_SIZE - 1) \div BATCH_SIZE) |->
        SubSeq(batch, (k - 1) * BATCH_SIZE + 1,
               IF k * BATCH_SIZE < Len(batch) THEN k * BATCH_SIZE ELSE Len(batch))]

\* The lists of a list, one after the other.
RECURSIVE Flatten(_)
Flatten(lists) ==
    IF lists = << >> THEN << >> ELSE Head(lists) \o Flatten(Tail(lists))

\* The sub-batches of all batches, in the order of the two loops: one
\* embed_texts call, and so one remote call, each.
RECURSIVE RemoteCalls(_)
RemoteCalls(batches) ==
    IF batches = << >> THEN << >>
    ELSE SubBatches(Head(batches)) \o RemoteCalls(Tail(batches))

\* EmbeddingGenerator.embed_chunks with its batches: sent lists the texts
\* of every remote call in order, oks[j] tells whether call j answers (it
\* raises otherwise, which embed_texts catches), value is the list returned:
\* the chunks of an answered call carry their embedding, the others are as
\* they came.
embed_chunk_batches(avail, chks, oks) ==
    IF ~avail \/ chks = << >> THEN [value |-> chks, sent |-> << >>]
    ELSE LET calls == RemoteCalls(TokenBatches(chks, 1))
             texts(j) == [n \in 1..Len(calls[j]) |-> calls[j][n].content]
             embedded(j) ==
                 LET embeddings == embed_texts(avail, oks[j], texts(j)).value
                 IN  [n \in 1..Len(calls[j]) |->
                        IF embeddings[n] # << >>
                        THEN [calls[j][n] EXCEPT !.embedding = embeddings[n]]
                        ELSE calls[j][n]]
         IN  [value |-> Flatten([j \in 1..Len(calls) |-> embedded(j)]),
              sent |-> [j \in 1..Len(calls) |-> texts(j)]]

\* ------------------------------------------------- Store statements (pure)

\* An optional value: << >> for None, << v >> for v.
None == << >>
Some(v) == << v >>

\* FOREIGN KEY (parent_id) REFERENCES sessions(id), PRAGMA foreign_keys = ON:
\* checked when the statement ends, so a row may name itself.
ParentFkOk(S, sid, parent) ==
    parent = Null \/ parent = sid \/ parent \in DOMAIN S

\* SessionDatabase.upsert_session: INSERT ... ON CONFLICT(id) DO UPDATE of
\* every column.  A foreign-key failure raises and writes nothing.
upsert_session(S, row) ==
    IF ParentFkOk(S, row.id, row.parent_id)
    THEN [ok |-> TRUE, sessions |-> (row.id :> row) @@ S]
    ELSE [ok |-> FALSE, sessions |-> S]

\* ON DELETE SET NULL of sessions.parent_id
SetNullChildren(S, id) ==
    [s \in DOMAIN S |->
        IF S[s].parent_id = id THEN [S[s] EXCEPT !.parent_id = Null] ELSE S[s]]

\* delete_session with the parent_id foreign key declared without
\* ON DELETE SET NULL enforcement: the children keep the deleted id.
delete_session_KeepsChildLinks(S, id) ==
    [s \in DOMAIN S \ {id} |-> S[s]]

\* SessionDatabase.delete_session on the sessions table.
delete_session(S, id) ==
    LET rest == [s \in DOMAIN S \ {id} |-> S[s]]
    IN  SetNullChildren(rest, id)

\* The cascade of messages.session_id taking every message row.
delete_messages_for_session_DeletesAll(M, id) ==
    [m \in {} |-> M[m]]

\* ON DELETE CASCADE of messages.session_id, and delete_messages_for_session.
delete_messages_for_session(M, id) ==
    [m \in { k \in DOMAIN M : M[k].session_id # id } |-> M[m]]

\* ON DELETE CASCADE of chunks.session_id, and delete_chunks_for_session.
delete_chunks_for_session(C, id) == { c \in C : c.session_id # id }

\* One row of upsert_messages' executemany: INSERT ... ON CONFLICT(id) DO
\* UPDATE SET role, content, timestamp, sequence, has_code, tool_mentions.
\* The owner (session_id) of a row that exists is not changed.
UpsertMessageRow(M, S, r) ==
    IF r.role = Null THEN [ok |-> FALSE, messages |-> M]          \* role NOT NULL
    ELSE IF r.id \in DOMAIN M
    THEN [ok |-> TRUE,
          messages |-> [M EXCEPT ![r.id] =
                          [@ EXCEPT !.role = r.role, !.content = r.content,
                                    !.sequence = r.sequence]]]
    ELSE IF r.session_id \notin DOMAIN S
    THEN [ok |-> FALSE, messages |-> M]                            \* foreign key
    ELSE [ok |-> TRUE, messages |-> (r.id :> r) @@ M]

RECURSIVE UpsertMessagesFrom(_, _, _, _)
UpsertMessagesFrom(M, S, rows, i) ==
    IF i > Len(rows) THEN [ok |-> TRUE, messages |-> M]
    ELSE LET one == UpsertMessageRow(M, S, rows[i])
         IN  IF one.ok THEN UpsertMessagesFrom(one.messages, S, rows, i + 1)
             ELSE one

\* SessionDatabase.upsert_messages: every row of the executemany commits on
\* its own, so the rows before a failing one stay.
upsert_messages(M, S, rows) == UpsertMessagesFrom(M, S, rows, 1)

RECURSIVE UpsertChunksFrom(_, _, _, _, _)
UpsertChunksFrom(C, next, S, rows, i) ==
    IF i > Len(rows) THEN [ok |-> TRUE, chunks |-> C, next |-> next]
    ELSE IF rows[i].session_id \notin DOMAIN S
    THEN [ok |-> FALSE, chunks |-> C, next |-> next]               \* foreign key
    ELSE UpsertChunksFrom(C \cup { [id |-> next] @@ rows[i] }, next + 1,
                          S, rows, i + 1)

\* SessionDatabase.upsert_chunks for rows without an id: one INSERT each,
\* the id taken from the AUTOINCREMENT sequence.
upsert_chunks(C, next, S, rows) == UpsertChunksFrom(C, next, S, rows, 1)

\* What upsert_session's statement does to the summaries table: ON CONFLICT(id)
\* DO UPDATE changes the session row in place, no row is deleted and so the
\* ON DELETE CASCADE of summaries.session_id does not fire.
upsert_session_Replaces(U, id) ==
    [s \in DOMAIN U \ {id} |-> U[s]]

upsert_session_cascade(U, id) == U

\* SessionDatabase.upsert_summary: INSERT ... ON CONFLICT(session_id) DO
\* UPDATE of summary, model, content_hash, created_at.  A session_id without
\* a session row fails the foreign key and writes nothing.
upsert_summary(U, S, sid, summary, model, content_hash, created_at) ==
    IF sid \notin DOMAIN S THEN U
    ELSE (sid :> [summary |-> summary, model |-> model,
                  content_hash |-> content_hash, created_at |-> created_at]) @@ U

\* SessionDatabase.get_session
get_session(S, id) == IF id \in DOMAIN S THEN Some(S[id]) ELSE None

RECURSIVE SortedBy(_, _)
\* ORDER BY key over a set of rows.
SortedBy(rows, key) ==
    IF rows = {} THEN << >>
    ELSE LET first == CHOOSE r \in rows : \A q \in rows : r[key] <= q[key]
         IN  << first >> \o SortedBy(rows \ {first}, key)

\* SessionDatabase.get_session_messages: ORDER BY sequence
get_session_messages(M, id) ==
    SortedBy({ M[k] : k \in { k \in DOMAIN M : M[k].session_id = id } },
             "sequence")

\* SessionDatabase.get_session_chunks: ORDER BY chunk_index
get_session_chunks(C, id) ==
    SortedBy({ c \in C : c.session_id = id }, "chunk_index")

\* SessionDatabase.get_all_chunk_embeddings: (session_id, id, embedding) of
\* the chunks WHERE embedding IS NOT NULL.  The rows come ORDER BY
\* session_id, chunk_index; the scores do not depend on the order.
get_all_chunk_embeddings(C) ==
    { << c.session_id, c.id, c.embedding >> : c \in { x \in C : x.embedding # << >> } }

\* SessionDatabase.get_children
get_children(S, parent) == { s \in DOMAIN S : S[s].parent_id = parent }

\* ------------------------------------------------------- search (pure)

\* Scores are fixed-point numbers: Scale stands for 1.0.  The raw scores of
\* the value space are chosen so that every division below is exact.
Scale == 1200

\* HybridSearch.__init__: fts_weight = 0.3, semantic_weight = 0.7
DefaultFtsWeight == 360
DefaultSemanticWeight == 840

\* MIN_COSINE = 0.35, FLOOR = 0.5, the cut "r.score >= 0.2", results[:10]
MIN_COSINE == 420
FLOOR == 600
MinCombined == 240
TopLogged == 10

\* The position of a session id in ORDER BY session_id.
IdOrder(sid) ==
    CASE sid = "a" -> 1 [] sid = "b" -> 2 [] sid = "c" -> 3
      [] sid = "d" -> 4 [] sid = "p" -> 5

\* The empty dict, and dict.get(key): None for a key that is not there.
NoScores == << >>
dict_get(scores, key) == IF key \in DOMAIN scores THEN << scores[key] >> ELSE << >>

\* FTS5 MATCH of the phrase query on a column text: the texts and queries of
\* the value space are single words, a text matches the query it equals.
Matches(text, query) == query # "" /\ text = query

\* SessionDatabase.search_messages_fts: one row (session_id, bm25) for every
\* session that owns a message whose content matches; bm gives the bm25 of a
\* session's best row (negative, lower is better).  The rows are the first
\* `limit` in bm25 order; a search asks for twice its own limit, which here
\* is never below the number of sessions, so LIMIT cuts nothing.
search_messages_fts(M, bm, query) ==
    LET hit == { M[k].session_id : k \in { k \in DOMAIN M : Matches(M[k].content, query) } }
    IN  [sid \in hit |-> bm[sid]]

\* SessionDatabase.search_sessions_fts: a row for every session whose
\* first_prompt_preview, project_name or auto_tags match.
search_sessions_fts(S, bm, query) ==
    LET hit == { sid \in DOMAIN S :
                   \/ Matches(S[sid].first_prompt_preview, query)
                   \/ Matches(S[sid].project_name, query)
                   \/ \E i \in DOMAIN S[sid].auto_tags :
                         Matches(S[sid].auto_tags[i], query) }
    IN  [sid \in hit |-> bm[sid]]

\* HybridSearch._normalize_scores
_normalize_scores_NoFloor(scores) ==
    IF DOMAIN scores = {} THEN NoScores
    ELSE LET values == { scores[k] : k \in DOMAIN scores }
             min_val == Min(values)
             max_val == Max(values)
         IN  IF max_val = min_val
             THEN [k \in DOMAIN scores |-> Scale]
             ELSE [k \in DOMAIN scores |->
                     (Scale * (scores[k] - min_val)) \div (max_val - min_val)]

_normalize_scores(scores) ==
    IF DOMAIN scores = {} THEN NoScores
    ELSE LET values == { scores[k] : k \in DOMAIN scores }
             min_val == Min(values)
             max_val == Max(values)
         IN  IF max_val = min_val
             THEN [k \in DOMAIN scores |-> Scale]
             ELSE [k \in DOMAIN scores |->
                     FLOOR + ((Scale - FLOOR) * (scores[k] - min_val))
                               \div (max_val - min_val)]

\* The scores dict of _search_fts: -bm25 of the message rows, raised to
\* -bm25 of the session row where that is higher.
FtsScores(msg_results, sess_results) ==
    [sid \in DOMAIN msg_results \cup DOMAIN sess_results |->
        IF sid \notin DOMAIN sess_results THEN 0 - msg_results[sid]
        ELSE IF sid \notin DOMAIN msg_results THEN 0 - sess_results[sid]
        ELSE Max({0 - msg_results[sid], 0 - sess_results[sid]})]

\* HybridSearch._search_fts
_search_fts(msg_results, sess_results) ==
    _normalize_scores(FtsScores(msg_results, sess_results))

\* The first n of the entries of a score dict sorted by score, best first;
\* the sort is stable, so equal scores stay in the order of the dict, which
\* is the order of the cached rows (ORDER BY session_id).
RECURSIVE TopSessions(_, _)
TopSessions(scores, n) ==
    IF n = 0 \/ DOMAIN scores = {} THEN NoScores
    ELSE LET best == CHOOSE k \in DOMAIN scores :
                       \A j \in DOMAIN scores :
                          \/ scores[k] > scores[j]
                          \/ scores[k] = scores[j] /\ IdOrder(k) <= IdOrder(j)
             rest == [j \in DOMAIN scores \ {best} |-> scores[j]]
         IN  (best :> scores[best]) @@ TopSessions(rest, n - 1)

\* HybridSearch._search_semantic once the query is embedded and the cache is
\* loaded: cos gives the cosine similarity of the query to a session's
\* chunks; sessions whose best similarity reaches MIN_COSINE are kept
\* (aggregated), the first `limit` of them normalized.
Aggregated(cached, cos) ==
    [sid \in { k \in { row[1] : row \in cached } : cos[k] >= MIN_COSINE } |-> cos[sid]]

_search_semantic(cached, cos, limit) ==
    _normalize_scores(TopSessions(Aggregated(cached, cos), limit))

\* HybridSearch._combine_scores: one SearchResult for every session of
\* either dict (as a set: the list's order is the iteration order of a set).
_combine_scores_WeighsSingle(fts_scores, semantic_scores, fts_weight, semantic_weight) ==
    { [session_id |-> sid,
       score |-> (IF sid \in DOMAIN fts_scores
                  THEN fts_weight * fts_scores[sid] ELSE 0) \div Scale
                 + (IF sid \in DOMAIN semantic_scores
                    THEN semantic_weight * semantic_scores[sid] ELSE 0) \div Scale,
       fts_score |-> dict_get(fts_scores, sid),
       semantic_score |-> dict_get(semantic_scores, sid)]
      : sid \in DOMAIN fts_scores \cup DOMAIN semantic_scores }

_combine_scores(fts_scores, semantic_scores, fts_weight, semantic_weight) ==
    { [session_id |-> sid,
       score |-> IF sid \in DOMAIN fts_scores /\ sid \in DOMAIN semantic_scores
                 THEN (fts_weight * fts_scores[sid]
                       + semantic_weight * semantic_scores[sid]) \div Scale
                 ELSE IF sid \in DOMAIN fts_scores
                 THEN fts_scores[sid] \div 2
                 ELSE semantic_scores[sid] \div 2,
       fts_score |-> dict_get(fts_scores, sid),
       semantic_score |-> dict_get(semantic_scores, sid)]
      : sid \in DOMAIN fts_scores \cup DOMAIN semantic_scores }

\* The lists that "combined.sort(key=score, reverse=True)" can leave: every
\* order of the results with the scores descending (equal scores keep the
\* order the set gave them, which is any).
Sorted_Ascending(results) ==
    { q \in [1..Cardinality(results) -> results] :
        /\ \A i, j \in DOMAIN q : i # j => q[i] # q[j]
        /\ \A i, j \in DOMAIN q : i < j => q[i].score <= q[j].score }

Sorted(results) ==
    { q \in [1..Cardinality(results) -> results] :
        /\ \A i, j \in DOMAIN q : i # j => q[i] # q[j]
        /\ \A i, j \in DOMAIN q : i < j => q[i].score >= q[j].score }

\* list[:n]
Take(q, n) == SubSeq(q, 1, IF Len(q) < n THEN Len(q) ELSE n)

\* ---------------------------------------------------- query parsing (pure)

\* A query is a sequence of atoms: a blank, a colon, a hyphen, or a word (a
\* run of \w characters); two words never stand next to each other.
IsWord(atom) == atom \notin {" ", ":", "-"}

\* The string a sequence of atoms spells.
RECURSIVE Text(_)
Text(atoms) ==
    IF atoms = << >> THEN "" ELSE Head(atoms) \o Text(Tail(atoms))

LowerAll(atoms) == [i \in 1..Len(atoms) |-> Lower(atoms[i])]

\* parse_date_value on the values of the value space: "7d" is a relative
\* time, "2024-01-15" an ISO date, nothing else parses.
parse_date_value(value) ==
    IF Lower(value) = "7d" THEN Some("now - 7 days")
    ELSE IF value = "2024-01-15" THEN Some("2024-01-15")
    ELSE None

\* Where \S+ stops when it starts at atom i: before the next blank.
RECURSIVE NonBlankEnd(_, _)
NonBlankEnd(q, i) ==
    IF i + 1 <= Len(q) /\ q[i + 1] # " " THEN NonBlankEnd(q, i + 1) ELSE i

\* re.findall(r'(\w+):(\S+)', query) from atom i on: the matches from left
\* to right, each with the atoms it spans.
RECURSIVE findall(_, _)
findall(q, i) ==
    IF i > Len(q) THEN << >>
    ELSE IF /\ IsWord(q[i])
            /\ i + 2 <= Len(q)
            /\ q[i + 1] = ":"
            /\ q[i + 2] # " "
    THEN LET to == NonBlankEnd(q, i + 2)
         IN  << [key |-> q[i], value |-> SubSeq(q, i + 2, to),
                 from |-> i, to |-> to] >> \o findall(q, to + 1)
    ELSE findall(q, i + 1)

\* The loop over the modifiers: a later modifier replaces an earlier one of
\* the same key, a key that is not recognized sets nothing.
RECURSIVE Filters(_, _, _)
Filters(modifiers, i, filters) ==
    IF i > Len(modifiers) THEN filters
    ELSE LET key == Lower(modifiers[i].key)
             value == modifiers[i].value
             set == CASE key = "harness" -> "harness" :> Text(LowerAll(value))
                      [] key = "project" -> "project" :> Text(value)
                      [] key = "before" -> "before" :> parse_date_value(Text(value))
                      [] key = "after" -> "after" :> parse_date_value(Text(value))
                      [] OTHER -> << >>
         IN  Filters(modifiers, i + 1, set @@ filters)

\* str.strip on a sequence of atoms.
RECURSIVE Strip(_)
Strip(atoms) ==
    IF atoms = << >> THEN atoms
    ELSE IF Head(atoms) = " " THEN Strip(Tail(atoms))
    ELSE IF atoms[Len(atoms)] = " " THEN Strip(SubSeq(atoms, 1, Len(atoms) - 1))
    ELSE atoms

\* Sequences.SelectSeq with the test "atom i is outside every match".
RECURSIVE Outside(_, _, _)
Outside(q, modifiers, i) ==
    IF i > Len(q) THEN << >>
    ELSE (IF \E m \in DOMAIN modifiers :
                modifiers[m].from <= i /\ i <= modifiers[m].to
          THEN << >> ELSE << q[i] >>) \o Outside(q, modifiers, i + 1)

\* parse_search_query with the modifiers left in the clean query.
parse_search_query_KeepsModifiers(q) ==
    [clean |-> Text(Strip(q)), filters |-> Filters(findall(q, 1), 1, << >>)]

\* parse_search_query(query): (clean_query, filters).
parse_search_query(q) ==
    LET modifiers == findall(q, 1)
    IN  [clean |-> Text(Strip(Outside(q, modifiers, 1))),
         filters |-> Filters(modifiers, 1, << >>)]

\* ------------------------------------------------------------------- state

VARIABLES
    clock,        \* int(time.time())
    files,        \* the corpus: session id -> source file, for the files present
    sessions,     \* Store table sessions: id -> row
    messages,     \* Store table messages: id (primary key) -> row
    chunks,       \* Store table chunks: set of rows
    nextChunkId,  \* next AUTOINCREMENT id of chunks
    summaries,    \* Store table summaries: session_id (primary key) -> row
    pc,           \* where the indexer thread stands
    work,         \* sessions_to_index / all_session_paths still to visit
    cur,          \* locals of the running _index_session call
    stats,        \* stats of the current run
    seen,         \* history: the source file each completed _index_session read
    available,    \* EmbeddingGenerator.available of this process
    cache,        \* HybridSearch._chunk_embeddings_cache
    searched,     \* the last HybridSearch.search: its number, what it scored
    readResult,   \* what the reader's last read returned
    metadata,     \* MetadataCache of this process: session id -> entry
    lastRun,      \* history: what the last full_reindex returned and left
    ranking,      \* what bm25 and the cosine give a session for the query
    semantic_searches,  \* Store table semantic_searches, in rowid order
    chunked,      \* a create_turn_chunks call: its messages, what it returned
    project_stats, \* Store table project_stats: project_path -> row
    embedder,     \* the EmbeddingGenerator's environment, its remote calls,
                  \* and its last call with what it returned
    parse_call,   \* a parse_search_query call: its query, what it returned
    second,       \* a second indexing worker thread: where it stands, the
                  \* paths it still visits, its locals, its projects dict
    semantic_call, \* a _search_semantic call of the search thread: where it
                  \* stands, the cache its null check left, what it returned
    call,         \* a call of generate_tags, of the preview or of the fusion: its
                  \* name, its argument, what it returned
    summary_cache, \* the SummaryCache class: cls._instance, the objects created,
                  \* the cache file, the threads using it, the last set per key
    database,     \* the SessionDatabase class: cls._instance, cls._lock, the
                  \* objects created, the threads constructing it, the resets
    metadata_cache, \* the MetadataCache followed call by call: its dict, its dirty
                  \* flag, its file and the writes of it, a session file, the
                  \* last set per path, what the last get or parse returned
    fts           \* the rowids of messages and sessions, messages_fts and sessions_fts, and the last FTS search

vars == << clock, files, sessions, messages, chunks, nextChunkId, summaries,
           pc, work, cur, stats, seen, available, cache, searched, readResult,
           metadata, lastRun, ranking, semantic_searches, chunked,
           project_stats, embedder, parse_call, second,
           semantic_call,
           call,
           summary_cache,
           database,
           metadata_cache,
           fts >>

\* The state of the application around the indexer and the tables that the
\* steps of _index_session do not write.
client == << available, cache, searched, readResult, metadata, lastRun,
             ranking, semantic_searches, chunked, project_stats, embedder, parse_call, second,
           semantic_call,
           call,
           summary_cache,
           database,
           metadata_cache,
           fts >>

Range(q) == { q[i] : i \in DOMAIN q }

\* The files a session id can have on disk when written at time now.  "p" is
\* a top-level session of project "pa": a Claude Code transcript (its mtime
\* possibly ahead of the clock) or an OpenCode session with a repeated
\* message id.  "c" is an OpenCode session that names "p" as its parent.
File(kind, mtime, parent, project) ==
    [kind |-> kind, mtime |-> mtime, parent |-> parent, project |-> project]

\* The corpus of the Store checks: transcripts that index cleanly, one with
\* a repeated message id, one with a null role.
StoreFiles(sid, now) ==
    IF sid = "p"
    THEN { File("cc", now, Null, "pa"), File("dup", now, Null, "pa") }
    ELSE { File("oc", now, "p", "pa"), File("bad", now, "p", "pa") }

\* The corpus of the change-detection checks: one session rewritten over
\* time, its mtime possibly ahead of the clock.
ChangeFiles(sid, now) ==
    { File("cc", now, Null, "pa"), File("cc", FutureMtime, Null, "pa"),
      File("cc2", now, Null, "pa") }

\* The corpora of the repeated full reindex: a Claude Code session with a
\* short or a long reply or an OpenCode session with a repeated message id,
\* alone or next to an OpenCode child.
TwiceFiles(sid) ==
    IF sid = "p"
    THEN { File("cc", 1, Null, "pa"), File("long", 1, Null, "pa"),
           File("dup", 1, Null, "pa") }
    ELSE { File("oc", 1, "p", "pa"), File("bad", 1, "p", "pa") }

Corpora ==
    { F \in UNION { [ids -> UNION { TwiceFiles(sid) : sid \in SessionIds }] :
                      ids \in SUBSET SessionIds \ {{}} } :
        \A sid \in DOMAIN F : F[sid] \in TwiceFiles(sid) }

\* The corpus of the chunk checks: an OpenCode session with one turn chunk,
\* with three turn chunks and a tool chunk, or with a turn and a tool chunk.
ChunkFiles(sid, now) ==
    { File("oc", now, Null, "pa"), File("big", now, Null, "pa"),
      File("tool", now, Null, "pa") }

\* The corpus of the parent / child checks: an OpenCode parent, a child in
\* the parent's project or in another one.
FamilyFiles(sid, now) ==
    IF sid = "p"
    THEN { File("oc", now, Null, "pa") }
    ELSE { File("oc", now, "p", "pa"), File("oc", now, "p", "pb") }

\* The corpus of the age-cutoff checks: "p" a Claude Code transcript, "c" an
\* OpenCode session without a parent, each written once or rewritten.
MaxAgeFiles(sid, now) ==
    IF sid = "p"
    THEN { File("cc", now, Null, "pa"), File("cc2", now, Null, "pa") }
    ELSE { File("oc", now, Null, "pa") }

\* max_age_hours * 3600 in ticks of the clock: the sessions of this tick
\* only, or those of the tick before as well.
MaxAges == {0, 1}

NoCur == [sid |-> Null]
NoStats == [run |-> Null]

NoSearch == [n |-> 0, scored |-> {}]

NoChunked == [messages |-> << >>, chunks |-> None]

\* No second worker is running.
NoSecond == [pc |-> "idle", work |-> << >>, cur |-> NoCur, projects |-> << >>]

\* No parse_search_query call yet.
NoParsed == [query |-> << >>, result |-> << >>]

\* An embedder whose environment and calls are not followed.
UnusedEmbedder == [env |-> << >>, calls |-> 0, call |-> << >>, result |-> << >>]

\* No call of a function under check was made.
NoCall == [op |-> "", arg |-> << >>, result |-> << >>]

\* The SummaryCache class before any construction, with no thread using it.
NoSummaryCache ==
    [instance |-> << >>, objects |-> << >>, disk |-> << >>, threads |-> << >>,
     written |-> << >>]

\* The SessionDatabase class before any construction, with no thread using it.
NoDatabase ==
    [instance |-> << >>, objects |-> << >>, lock |-> << >>, threads |-> << >>,
     resets |-> 0]

\* A MetadataCache that nothing has used: no entry, no file.
NoMetadataCache ==
    [_data |-> << >>, _dirty |-> FALSE, disk |-> << >>, writes |-> 0,
     file |-> << >>, sets |-> << >>, unsaved |-> FALSE, got |-> << >>]

\* The full-text tables of an empty database: no rowid given, nothing indexed.
NoFts ==
    [message_rowid |-> << >>, messages_fts |-> {},
     session_rowid |-> << >>, sessions_fts |-> {},
     removed |-> << >>, result |-> << >>]

\* No _search_semantic call is running.
NoSemantic == [pc |-> "idle", loaded |-> << >>, result |-> << >>]

\* The most messages of a transcript handed to create_turn_chunks.
MaxMessages == 3

\* The most remote calls of an embedder that are followed.
MaxCalls == 2

\* The most blank-separated pieces of a query.
MaxTokens == 3

\* The most remote calls of the embed_chunks runs that are followed.
MaxBatchCalls == 4

\* The most characters of a first prompt handed to the preview.
MaxPromptChars == 202

\* The most reset_instance calls that are followed.
MaxResets == 2

\* The most writes of the metadata cache file that are followed.
MaxWrites == 2

\* The largest rowid a table gives out.
MaxRowid == 3

\* The message dicts of the chunker checks: ids by position, a role, and a
\* content that is short, 792 or 2007 characters long, or not a string.
Transcripts ==
    UNION { { q \in [1..n -> [id : {"m1", "m2", "m3", "m4"},
                              role : {"user", "assistant"},
                              content : {"hello", MediumText, LongReply, Null}]] :
                \A i \in 1..n : q[i].id = "m" \o ToString(i) } :
            n \in 1..MaxMessages }

\* The session ids of the search corpus.
FusionIds == {"a", "b", "d"}

\* bm25 of a session's message rows and of its session row, and the cosine
\* of the query to its chunks, when nothing else is said.
DefaultRanking ==
    [bm25_messages |-> [sid \in SessionIds \cup FusionIds |-> 0 - 5],
     bm25_sessions |-> [sid \in SessionIds \cup FusionIds |-> 0 - 5],
     cos |-> [sid \in SessionIds \cup FusionIds |-> 960]]

InitStore ==
    /\ clock = 1
    /\ files = << >>
    /\ sessions = << >>
    /\ messages = << >>
    /\ chunks = {}
    /\ nextChunkId = 1
    /\ summaries = << >>
    /\ pc = "idle"
    /\ work = << >>
    /\ cur = NoCur
    /\ stats = NoStats
    /\ seen = << >>
    /\ cache = None
    /\ searched = NoSearch
    /\ readResult = None
    /\ metadata = << >>
    /\ lastRun = None
    /\ ranking = DefaultRanking
    /\ semantic_searches = << >>
    /\ project_stats = << >>

\* A process without OPENAI_API_KEY: the embedder is not available.
Init ==
    /\ InitStore
    /\ available = FALSE
    /\ chunked = NoChunked
    /\ embedder = UnusedEmbedder
    /\ parse_call = NoParsed
    /\ second = NoSecond
    /\ semantic_call = NoSemantic
    /\ call = NoCall
    /\ summary_cache = NoSummaryCache
    /\ database = NoDatabase
    /\ metadata_cache = NoMetadataCache
    /\ fts = NoFts

\* A process that finds a corpus on disk which is not written to while it
\* runs; its MetadataCache holds nothing yet.
InitTwice ==
    /\ clock = 1
    /\ files \in Corpora
    /\ sessions = << >>
    /\ messages = << >>
    /\ chunks = {}
    /\ nextChunkId = 1
    /\ summaries = << >>
    /\ pc = "idle"
    /\ work = << >>
    /\ cur = NoCur
    /\ stats = NoStats
    /\ seen = << >>
    /\ available = FALSE
    /\ cache = None
    /\ searched = NoSearch
    /\ readResult = None
    /\ metadata = << >>
    /\ lastRun = None
    /\ ranking = DefaultRanking
    /\ semantic_searches = << >>
    /\ project_stats = << >>
    /\ embedder = UnusedEmbedder
    /\ parse_call = NoParsed
    /\ second = NoSecond
    /\ semantic_call = NoSemantic
    /\ call = NoCall
    /\ summary_cache = NoSummaryCache
    /\ database = NoDatabase
    /\ metadata_cache = NoMetadataCache
    /\ fts = NoFts
    /\ chunked = NoChunked

\* The metadata cache files a process can find on disk when it starts: no
\* file, or one entry for the OpenCode session "c" as written at time 1.  The
\* file is JSON that MetadataCache._load takes as it is, so the is_child and
\* the parent_id of the entry are any pair of values.
DiskCaches ==
    { << >> } \cup
    { "c" :> [cache_metadata(File("oc", 1, Null, "pa"),
                             parse_session("c", File("oc", 1, Null, "pa")))
              EXCEPT !.is_child = child, !.parent_id = parent] :
        child \in BOOLEAN, parent \in {Null, "p"} }

\* A process that starts with a metadata cache file on disk, next to the
\* session the entry is about.
InitCache ==
    /\ clock = 1
    /\ files = ("c" :> File("oc", 1, Null, "pa"))
    /\ sessions = << >>
    /\ messages = << >>
    /\ chunks = {}
    /\ nextChunkId = 1
    /\ summaries = << >>
    /\ pc = "idle"
    /\ work = << >>
    /\ cur = NoCur
    /\ stats = NoStats
    /\ seen = << >>
    /\ available = FALSE
    /\ cache = None
    /\ searched = NoSearch
    /\ readResult = None
    /\ metadata \in DiskCaches
    /\ lastRun = None
    /\ ranking = DefaultRanking
    /\ semantic_searches = << >>
    /\ project_stats = << >>
    /\ embedder = UnusedEmbedder
    /\ parse_call = NoParsed
    /\ second = NoSecond
    /\ semantic_call = NoSemantic
    /\ call = NoCall
    /\ summary_cache = NoSummaryCache
    /\ database = NoDatabase
    /\ metadata_cache = NoMetadataCache
    /\ fts = NoFts
    /\ chunked = NoChunked

\* A process whose embedder is available.
InitEmbedding ==
    /\ InitStore
    /\ available = TRUE
    /\ chunked = NoChunked
    /\ embedder = UnusedEmbedder
    /\ parse_call = NoParsed
    /\ second = NoSecond
    /\ semantic_call = NoSemantic
    /\ call = NoCall
    /\ summary_cache = NoSummaryCache
    /\ database = NoDatabase
    /\ metadata_cache = NoMetadataCache
    /\ fts = NoFts

\* ------------------------------------------------------------- environment

Tick ==
    /\ clock < MaxTime
    /\ clock' = clock + 1
    /\ UNCHANGED << files, sessions, messages, chunks, nextChunkId, summaries,
                    pc, work, cur, stats, seen >>
    /\ UNCHANGED client

\* A harness writes (creates or rewrites) the transcript of session sid.
WriteFile(sid, f) ==
    /\ files' = (sid :> f) @@ files
    /\ UNCHANGED << clock, sessions, messages, chunks, nextChunkId, summaries,
                    pc, work, cur, stats, seen >>
    /\ UNCHANGED client

\* The source file of session sid disappears.
RemoveFile(sid) ==
    /\ sid \in DOMAIN files
    /\ files' = [s \in DOMAIN files \ {sid} |-> files[s]]
    /\ UNCHANGED << clock, sessions, messages, chunks, nextChunkId, summaries,
                    pc, work, cur, stats, seen >>
    /\ UNCHANGED client

\* ---------------------------------------------------------------- indexer

\* What a reader of the Store gets for session sid: its row, its messages in
\* sequence order, its chunks in chunk_index order (without the rowids).
ChunkView(c) ==
    [session_id |-> c.session_id, message_id |-> c.message_id,
     chunk_index |-> c.chunk_index, chunk_type |-> c.chunk_type,
     content |-> c.content, embedding |-> c.embedding]

ViewOf(S, M, C, sid) ==
    LET cs == get_session_chunks(C, sid)
    IN  [session |-> get_session(S, sid),
         messages |-> get_session_messages(M, sid),
         chunks |-> [i \in 1..Len(cs) |-> ChunkView(cs[i])]]

View(sid) == ViewOf(sessions, messages, chunks, sid)

\* SessionIndexer._get_session_mtime of a file that is present.
_get_session_mtime(file) == file.mtime

\* The needs_index test of incremental_update for one discovered path.
\* Only rows with a file_mtime and an indexed_at count as indexed.
NeedsIndex(S, F, sid) ==
    LET known == sid \in DOMAIN S /\ S[sid].file_mtime # 0 /\ S[sid].indexed_at # 0
    IN  IF ~known THEN TRUE
        ELSE _get_session_mtime(F[sid]) > S[sid].indexed_at

\* The orders in which discovery can yield a set of paths.
Orders(ids) ==
    { q \in UNION { [1..n -> ids] : n \in {Cardinality(ids)} } :
        \A i, j \in DOMAIN q : i # j => q[i] # q[j] }

\* The calls of full_reindex's progress_callback so far, after the visit of
\* the path at index i = len(outcomes): "progress_callback(i + 1, total,
\* session.id)" comes after the use of the result, so it is reached when
\* _index_session returned counts or None, and not when parse_session gave
\* no session ("continue").  incremental_update has no callback.
progress(st, sid, outcome) ==
    IF st.run \in {"full", "full_metadata"} /\ outcome # "skipped"
    THEN Append(st.progress, [done |-> Len(st.outcomes) + 1,
                              total |-> Cardinality(st.marked), sid |-> sid])
    ELSE st.progress

\* The run loop's use of what parse_session / _index_session gave it for one
\* path: "if result: stats["sessions_indexed"] += 1"; None (the call caught
\* an exception) and a path that did not parse count nothing.  The outcomes
\* record, path by path, how the visit ended.
add_result_CountsEveryVisit(st, sid, outcome, nmessages, nchunks) ==
    [st EXCEPT !.sessions_indexed = @ + 1,
               !.messages_indexed = @ + nmessages,
               !.chunks_created = @ + nchunks,
               !.outcomes = Append(@, [sid |-> sid, outcome |-> outcome]),
               !.progress = progress(st, sid, outcome)]

add_result(st, sid, outcome, nmessages, nchunks) ==
    IF outcome = "returned"
    THEN [st EXCEPT !.sessions_indexed = @ + 1,
                    !.messages_indexed = @ + nmessages,
                    !.chunks_created = @ + nchunks,
                    !.outcomes = Append(@, [sid |-> sid, outcome |-> outcome]),
                    !.progress = progress(st, sid, outcome)]
    ELSE [st EXCEPT !.outcomes = Append(@, [sid |-> sid, outcome |-> outcome]),
                    !.progress = progress(st, sid, outcome)]

\* The run's projects dict after a session was indexed: the session is
\* appended to its project's entry and the number of its messages added.
add_project(st, session, nmessages) ==
    LET key == session.project_path
        old == IF key \in DOMAIN st.projects THEN st.projects[key]
               ELSE [sessions |-> << >>, messages |-> 0]
        new == [sessions |-> Append(old.sessions,
                                    [id |-> session.id,
                                     is_child |-> session.is_child]),
                messages |-> old.messages + nmessages]
    IN  [st EXCEPT !.projects = (key :> new) @@ @]

\* The row _update_all_project_stats computes for one entry of the run's
\* projects dict (times, names, harness counts and tags are left out).
ProjectStatsRow(data) ==
    [total_sessions |-> Len(data.sessions),
     parent_sessions |->
        Cardinality({ i \in DOMAIN data.sessions : ~data.sessions[i].is_child }),
     child_sessions |->
        Cardinality({ i \in DOMAIN data.sessions : data.sessions[i].is_child }),
     total_messages |-> data.messages]

\* SessionIndexer._update_all_project_stats with update_project_stats'
\* INSERT ... ON CONFLICT(project_path) DO UPDATE for every project of the run.
_update_all_project_stats(P, projects) ==
    [path \in DOMAIN P \cup DOMAIN projects |->
        IF path \in DOMAIN projects THEN ProjectStatsRow(projects[path])
        ELSE P[path]]

\* SessionIndexer.incremental_update up to the end of its scan.
IncrementalUpdate ==
    /\ pc = "idle"
    /\ \E order \in Orders({ sid \in DOMAIN files : NeedsIndex(sessions, files, sid) }) :
          work' = order
    /\ pc' = "loop"
    /\ stats' = [run |-> "incremental", sessions_indexed |-> 0,
                 messages_indexed |-> 0, chunks_created |-> 0,
                 gone |-> DOMAIN sessions \ DOMAIN files,
                 marked |-> Range(work'), outcomes |-> << >>, progress |-> << >>,
                 projects |-> << >>]
    /\ UNCHANGED << clock, files, sessions, messages, chunks, nextChunkId,
                    summaries, cur, seen >>
    /\ UNCHANGED client

\* SessionIndexer.full_reindex up to the end of discovery.
FullReindex ==
    /\ pc = "idle"
    /\ \E order \in Orders(DOMAIN files) : work' = order
    /\ pc' = "loop"
    /\ stats' = [run |-> "full", sessions_indexed |-> 0,
                 messages_indexed |-> 0, chunks_created |-> 0,
                 gone |-> DOMAIN sessions \ DOMAIN files,
                 marked |-> Range(work'), outcomes |-> << >>, progress |-> << >>,
                 projects |-> << >>]
    /\ UNCHANGED << clock, files, sessions, messages, chunks, nextChunkId,
                    summaries, cur, seen >>
    /\ UNCHANGED client

\* SessionProvider.fast_discovery: True in the base class, False for
\* OpenCode.
fast_discovery(harness) == harness # "opencode"

\* The needs_index test of incremental_update(max_age_hours) for one
\* discovered path; age_cutoff is int(time.time()) - max_age_hours * 3600
\* and counts as set when it is not 0.
NeedsIndexWithin(S, F, sid, age_cutoff) ==
    LET known == sid \in DOMAIN S /\ S[sid].file_mtime # 0 /\ S[sid].indexed_at # 0
    IN  IF age_cutoff # 0 /\ ~fast_discovery(HarnessOf(F[sid].kind)) THEN FALSE
        ELSE IF ~known
        THEN ~(age_cutoff # 0 /\ _get_session_mtime(F[sid]) < age_cutoff)
        ELSE _get_session_mtime(F[sid]) > S[sid].indexed_at

\* SessionIndexer.incremental_update(max_age_hours) up to the end of its
\* scan; max_age is max_age_hours * 3600 in ticks of the clock.
IncrementalUpdateMaxAge(max_age) ==
    /\ pc = "idle"
    /\ \E order \in Orders({ sid \in DOMAIN files :
                              NeedsIndexWithin(sessions, files, sid,
                                               clock - max_age) }) :
          work' = order
    /\ pc' = "loop"
    /\ stats' = [run |-> "incremental", sessions_indexed |-> 0,
                 messages_indexed |-> 0, chunks_created |-> 0,
                 gone |-> DOMAIN sessions \ DOMAIN files,
                 marked |-> Range(work'), outcomes |-> << >>, progress |-> << >>,
                 projects |-> << >>]
    /\ UNCHANGED << clock, files, sessions, messages, chunks, nextChunkId,
                    summaries, cur, seen >>
    /\ UNCHANGED client

\* The locals of _index_session, recomputed from the file it read.
CurSession == cur.session
CurMessages == IndexerMessages(CurSession, Lines(cur.file.kind, cur.sid))
CurMessageRows == MessageRows(cur.sid, CurMessages)
CurChunks == embed_chunks(available, chunk_session(CurSession, CurMessages))

\* "Only set parent_id if parent exists in DB"
safe_parent_id(S, session) ==
    IF Truthy(session.parent_id) /\ get_session(S, session.parent_id) # None
    THEN session.parent_id
    ELSE Null

\* The arguments _index_session hands to upsert_session.  The project's name
\* is the last part of its path (here the path itself), and no first prompt
\* of the value space is longer than the 200 characters of the preview.
SessionRow(S, session, msgs, tags, file_mtime, indexed_at) ==
    [id |-> session.id,
     harness |-> session.harness,
     project_path |-> session.project_path,
     timestamp_end |-> session.modified_time,
     is_child |-> session.is_child,
     parent_id |-> safe_parent_id(S, session),
     message_count |-> Len(msgs),
     project_name |-> session.project_path,
     first_prompt_preview |-> IF Truthy(session.first_prompt)
                              THEN session.first_prompt ELSE Null,
     auto_tags |-> tags,
     file_mtime |-> file_mtime,
     indexed_at |-> indexed_at]

\* The run loop takes the next (provider, path) and calls parse_session
\* (which looks the file up in the MetadataCache) and _index_session, which
\* runs up to and including its upsert_session.  A path whose file is gone
\* by now is skipped.
BeginIndexSession ==
    /\ pc = "loop"
    /\ work # << >>
    /\ stats.run # "full_metadata"
    /\ work' = Tail(work)
    /\ LET sid == Head(work)
       IN  IF sid \notin DOMAIN files
           THEN /\ stats' = add_result(stats, sid, "skipped", 0, 0)
                /\ UNCHANGED << sessions, summaries, pc, cur, metadata >>
           ELSE LET file == files[sid]
                    parsed == parse_session_cached(metadata, sid, file)
                    session == parsed.session
                    msgs == IndexerMessages(session, Lines(file.kind, sid))
                    row == SessionRow(sessions, session, msgs,
                                      generate_tags(session, msgs),
                                      _get_session_mtime(file), clock)
                    res == upsert_session(sessions, row)
                IN  /\ nextChunkId + Len(chunk_session(session, msgs)) <= MaxChunkId + 1
                    /\ sessions' = res.sessions
                    /\ metadata' = parsed.metadata
                    /\ IF res.ok
                       THEN /\ summaries' = upsert_session_cascade(summaries, sid)
                            /\ pc' = "delete_messages"
                            /\ cur' = [sid |-> sid, file |-> file,
                                       session |-> session, pre |-> View(sid)]
                            /\ stats' = stats
                       ELSE /\ stats' = add_result(stats, sid, "raised", 0, 0)
                            /\ UNCHANGED << summaries, pc, cur >>
    /\ UNCHANGED << clock, files, messages, chunks, nextChunkId, seen >>
    /\ UNCHANGED << available, cache, searched, readResult, lastRun, ranking,
                    semantic_searches, chunked, project_stats, embedder, parse_call, second, semantic_call, call, summary_cache, database, metadata_cache, fts >>

\* self.db.delete_messages_for_session(session.id)
DeleteMessages ==
    /\ pc = "delete_messages"
    /\ messages' = delete_messages_for_session(messages, cur.sid)
    /\ pc' = "delete_chunks"
    /\ UNCHANGED << clock, files, sessions, chunks, nextChunkId, summaries,
                    work, cur, stats, seen >>
    /\ UNCHANGED client

\* self.db.delete_chunks_for_session(session.id)
DeleteChunks ==
    /\ pc = "delete_chunks"
    /\ chunks' = delete_chunks_for_session(chunks, cur.sid)
    /\ pc' = "upsert_messages"
    /\ UNCHANGED << clock, files, sessions, messages, nextChunkId, summaries,
                    work, cur, stats, seen >>
    /\ UNCHANGED client

\* self.db.upsert_messages(message_rows); an exception ends the call in the
\* except branch (return None) and the run goes on with the next path.
UpsertMessages ==
    /\ pc = "upsert_messages"
    /\ LET res == upsert_messages(messages, sessions, CurMessageRows)
       IN  /\ messages' = res.messages
           /\ IF res.ok
              THEN pc' = "upsert_chunks" /\ cur' = cur /\ stats' = stats
              ELSE /\ pc' = "loop" /\ cur' = NoCur
                   /\ stats' = add_result(stats, cur.sid, "raised", 0, 0)
    /\ UNCHANGED << clock, files, sessions, chunks, nextChunkId, summaries,
                    work, seen >>
    /\ UNCHANGED client

\* self.db.upsert_chunks(chunk_rows) and the return of the counts, which the
\* run adds to its stats.
UpsertChunks ==
    /\ pc = "upsert_chunks"
    /\ LET res == upsert_chunks(chunks, nextChunkId, sessions, CurChunks)
       IN  /\ chunks' = res.chunks
           /\ nextChunkId' = res.next
           /\ IF res.ok
              THEN /\ stats' = add_project(
                                 add_result(stats, cur.sid, "returned",
                                            Len(CurMessages), Len(CurChunks)),
                                 CurSession, Len(CurMessages))
                   /\ seen' = (cur.sid :> cur.file) @@ seen
              ELSE /\ stats' = add_result(stats, cur.sid, "raised", 0, 0)
                   /\ seen' = seen
    /\ pc' = "loop"
    /\ cur' = NoCur
    /\ UNCHANGED << clock, files, sessions, messages, summaries, work >>
    /\ UNCHANGED client

\* SessionIndexer.full_reindex(metadata_only=True) up to the end of
\* discovery.
FullReindexMetadataOnly ==
    /\ pc = "idle"
    /\ \E order \in Orders(DOMAIN files) : work' = order
    /\ pc' = "loop"
    /\ stats' = [run |-> "full_metadata", sessions_indexed |-> 0,
                 messages_indexed |-> 0, chunks_created |-> 0,
                 gone |-> DOMAIN sessions \ DOMAIN files,
                 marked |-> Range(work'), outcomes |-> << >>, progress |-> << >>,
                 projects |-> << >>]
    /\ UNCHANGED << clock, files, sessions, messages, chunks, nextChunkId,
                    summaries, cur, seen >>
    /\ UNCHANGED client

\* One turn of the loop of a metadata-only run: parse_session and
\* _index_session(session, provider, metadata_only=True), whose messages,
\* tags and chunks are empty lists and whose one write is upsert_session
\* (an empty tag list is stored as NULL, written << >> here).
IndexSessionMetadataOnly ==
    /\ pc = "loop"
    /\ work # << >>
    /\ stats.run = "full_metadata"
    /\ work' = Tail(work)
    /\ LET sid == Head(work)
       IN  IF sid \notin DOMAIN files
           THEN /\ stats' = add_result(stats, sid, "skipped", 0, 0)
                /\ UNCHANGED << sessions, summaries, metadata, seen >>
           ELSE LET file == files[sid]
                    parsed == parse_session_cached(metadata, sid, file)
                    session == parsed.session
                    row == SessionRow(sessions, session, << >>, << >>,
                                      _get_session_mtime(file), clock)
                    res == upsert_session(sessions, row)
                IN  /\ sessions' = res.sessions
                    /\ metadata' = parsed.metadata
                    /\ IF res.ok
                       THEN /\ summaries' = upsert_session_cascade(summaries, sid)
                            /\ stats' = add_project(
                                   add_result(stats, sid, "returned", 0, 0),
                                   session, 0)
                            /\ seen' = (sid :> file) @@ seen
                       ELSE /\ stats' = add_result(stats, sid, "raised", 0, 0)
                            /\ UNCHANGED << summaries, seen >>
    /\ UNCHANGED << clock, files, messages, chunks, nextChunkId, pc, cur >>
    /\ UNCHANGED << available, cache, searched, readResult, lastRun, ranking,
                    semantic_searches, chunked, project_stats, embedder, parse_call, second, semantic_call, call, summary_cache, database, metadata_cache, fts >>

\* The run has visited every path, calls _update_all_project_stats with
\* the projects it gathered and returns its stats.
FinishRun ==
    /\ pc = "loop"
    /\ work = << >>
    /\ pc' = "idle"
    /\ stats' = NoStats
    /\ project_stats' = _update_all_project_stats(project_stats, stats.projects)
    /\ UNCHANGED << clock, files, sessions, messages, chunks, nextChunkId,
                    summaries, work, cur, seen >>
    /\ UNCHANGED << available, cache, searched, readResult, metadata, lastRun,
                    ranking, semantic_searches, chunked, embedder, parse_call, second, semantic_call, call, summary_cache, database, metadata_cache, fts >>

\* What a caller finds in the Store after a run: the numbers of session,
\* message and chunk rows and each session's auto_tags list.
StoreCounts(S, M, C) ==
    [sessions |-> Cardinality(DOMAIN S),
     messages |-> Cardinality(DOMAIN M),
     chunks |-> Cardinality(C),
     auto_tags |-> [sid \in DOMAIN S |-> S[sid].auto_tags]]

\* full_reindex has visited every path and returns its stats to a caller
\* that keeps them (cmd_reindex prints them).
FullReindexReturns ==
    /\ pc = "loop"
    /\ work = << >>
    /\ stats.run = "full"
    /\ pc' = "idle"
    /\ stats' = NoStats
    /\ lastRun' = Some([sessions_indexed |-> stats.sessions_indexed,
                        messages_indexed |-> stats.messages_indexed,
                        chunks_created |-> stats.chunks_created,
                        store |-> StoreCounts(sessions, messages, chunks)])
    /\ project_stats' = _update_all_project_stats(project_stats, stats.projects)
    /\ UNCHANGED << clock, files, sessions, messages, chunks, nextChunkId,
                    summaries, work, cur, seen >>
    /\ UNCHANGED << available, cache, searched, readResult, metadata, ranking,
                    semantic_searches, chunked, embedder, parse_call, second, semantic_call, call, summary_cache, database, metadata_cache, fts >>

\* ------------------------------------------------ a second indexing worker

\* action_reindex starts _run_incremental_index, a thread worker, whatever
\* other worker is running: a running thread is not stopped by the worker
\* being exclusive, and nothing in the indexer or the Store takes a lock for
\* a run.  Its incremental_update() runs up to the end of its scan.
ActionReindex ==
    /\ second.pc = "idle"
    /\ \E order \in Orders({ sid \in DOMAIN files : NeedsIndex(sessions, files, sid) }) :
          second' = [pc |-> "loop", work |-> order, cur |-> NoCur,
                     projects |-> << >>]
    /\ UNCHANGED << clock, files, sessions, messages, chunks, nextChunkId,
                    summaries, pc, work, cur, stats, seen >>
    /\ UNCHANGED << available, cache, searched, readResult, metadata, lastRun,
                    ranking, semantic_searches, chunked, project_stats,
                    embedder, parse_call, semantic_call, call, summary_cache, database, metadata_cache, fts >>

\* The locals of the second worker's _index_session call.
SecondMessages ==
    IndexerMessages(second.cur.session, Lines(second.cur.file.kind, second.cur.sid))
SecondChunks ==
    embed_chunks(available, chunk_session(second.cur.session, SecondMessages))

\* The second worker's loop takes its next path: parse_session and
\* _index_session up to and including upsert_session.
SecondBeginIndexSession ==
    /\ second.pc = "loop"
    /\ second.work # << >>
    /\ LET sid == Head(second.work)
       IN  IF sid \notin DOMAIN files
           THEN /\ second' = [second EXCEPT !.work = Tail(@)]
                /\ UNCHANGED << sessions, summaries, metadata >>
           ELSE LET file == files[sid]
                    parsed == parse_session_cached(metadata, sid, file)
                    session == parsed.session
                    msgs == IndexerMessages(session, Lines(file.kind, sid))
                    row == SessionRow(sessions, session, msgs,
                                      generate_tags(session, msgs),
                                      _get_session_mtime(file), clock)
                    res == upsert_session(sessions, row)
                IN  /\ nextChunkId + Len(chunk_session(session, msgs)) <= MaxChunkId + 1
                    /\ sessions' = res.sessions
                    /\ metadata' = parsed.metadata
                    /\ IF res.ok
                       THEN /\ summaries' = upsert_session_cascade(summaries, sid)
                            /\ second' = [second EXCEPT
                                             !.work = Tail(@),
                                             !.pc = "delete_messages",
                                             !.cur = [sid |-> sid, file |-> file,
                                                      session |-> session]]
                       ELSE /\ second' = [second EXCEPT !.work = Tail(@)]
                            /\ UNCHANGED summaries
    /\ UNCHANGED << clock, files, messages, chunks, nextChunkId, pc, work, cur,
                    stats, seen >>
    /\ UNCHANGED << available, cache, searched, readResult, lastRun, ranking,
                    semantic_searches, chunked, project_stats, embedder,
                    parse_call, semantic_call, call, summary_cache, database, metadata_cache, fts >>

\* The second worker's delete_messages_for_session.
SecondDeleteMessages ==
    /\ second.pc = "delete_messages"
    /\ messages' = delete_messages_for_session(messages, second.cur.sid)
    /\ second' = [second EXCEPT !.pc = "delete_chunks"]
    /\ UNCHANGED << clock, files, sessions, chunks, nextChunkId, summaries, pc,
                    work, cur, stats, seen >>
    /\ UNCHANGED << available, cache, searched, readResult, metadata, lastRun,
                    ranking, semantic_searches, chunked, project_stats,
                    embedder, parse_call, semantic_call, call, summary_cache, database, metadata_cache, fts >>

\* The second worker's delete_chunks_for_session.
SecondDeleteChunks ==
    /\ second.pc = "delete_chunks"
    /\ chunks' = delete_chunks_for_session(chunks, second.cur.sid)
    /\ second' = [second EXCEPT !.pc = "upsert_messages"]
    /\ UNCHANGED << clock, files, sessions, messages, nextChunkId, summaries,
                    pc, work, cur, stats, seen >>
    /\ UNCHANGED << available, cache, searched, readResult, metadata, lastRun,
                    ranking, semantic_searches, chunked, project_stats,
                    embedder, parse_call, semantic_call, call, summary_cache, database, metadata_cache, fts >>

\* The second worker's upsert_messages.
SecondUpsertMessages ==
    /\ second.pc = "upsert_messages"
    /\ LET res == upsert_messages(messages, sessions,
                                  MessageRows(second.cur.sid, SecondMessages))
       IN  /\ messages' = res.messages
           /\ second' = IF res.ok
                        THEN [second EXCEPT !.pc = "upsert_chunks"]
                        ELSE [second EXCEPT !.pc = "loop", !.cur = NoCur]
    /\ UNCHANGED << clock, files, sessions, chunks, nextChunkId, summaries, pc,
                    work, cur, stats, seen >>
    /\ UNCHANGED << available, cache, searched, readResult, metadata, lastRun,
                    ranking, semantic_searches, chunked, project_stats,
                    embedder, parse_call, semantic_call, call, summary_cache, database, metadata_cache, fts >>

\* The second worker's upsert_chunks and the return of _index_session.
SecondUpsertChunks ==
    /\ second.pc = "upsert_chunks"
    /\ LET res == upsert_chunks(chunks, nextChunkId, sessions, SecondChunks)
           done == [second EXCEPT !.pc = "loop", !.cur = NoCur]
       IN  /\ chunks' = res.chunks
           /\ nextChunkId' = res.next
           /\ second' = IF res.ok
                        THEN [done EXCEPT !.projects =
                                 add_project([projects |-> second.projects],
                                             second.cur.session,
                                             Len(SecondMessages)).projects]
                        ELSE done
    /\ UNCHANGED << clock, files, sessions, messages, summaries, pc, work, cur,
                    stats, seen >>
    /\ UNCHANGED << available, cache, searched, readResult, metadata, lastRun,
                    ranking, semantic_searches, chunked, project_stats,
                    embedder, parse_call, semantic_call, call, summary_cache, database, metadata_cache, fts >>

\* The second worker's run has visited every path, updates the project
\* stats and returns.
SecondFinishRun ==
    /\ second.pc = "loop"
    /\ second.work = << >>
    /\ second' = NoSecond
    /\ project_stats' = _update_all_project_stats(project_stats, second.projects)
    /\ UNCHANGED << clock, files, sessions, messages, chunks, nextChunkId,
                    summaries, pc, work, cur, stats, seen >>
    /\ UNCHANGED << available, cache, searched, readResult, metadata, lastRun,
                    ranking, semantic_searches, chunked, embedder, parse_call, semantic_call, call, summary_cache, database, metadata_cache, fts >>

\* ------------------------------------------------------- other Store calls

\* SessionDatabase.delete_session(sid): the row goes, ON DELETE CASCADE takes
\* its messages, chunks and summary, ON DELETE SET NULL unlinks its children.
\* Nothing in the repository calls it; here a caller does so between two
\* _index_session calls.
DeleteSession(sid) ==
    /\ pc \in {"idle", "loop"}
    /\ sid \in DOMAIN sessions
    /\ sessions' = delete_session(sessions, sid)
    /\ messages' = delete_messages_for_session(messages, sid)
    /\ chunks' = delete_chunks_for_session(chunks, sid)
    /\ summaries' = [s \in DOMAIN summaries \ {sid} |-> summaries[s]]
    /\ seen' = [s \in DOMAIN seen \ {sid} |-> seen[s]]
    /\ UNCHANGED << clock, files, nextChunkId, pc, work, cur, stats >>
    /\ UNCHANGED client

\* The summary worker stores the summary it generated for session sid:
\* self.db.upsert_summary(session_id, summary, "gpt-5.2", content_hash,
\* int(time.time())).  The hash stands for the content the summary was made of.
UpsertSummary(sid, text) ==
    /\ sid \in DOMAIN sessions
    /\ summaries' = upsert_summary(summaries, sessions, sid, text, "gpt-5.2",
                                   "hash-" \o text, clock)
    /\ UNCHANGED << clock, files, sessions, messages, chunks, nextChunkId,
                    pc, work, cur, stats, seen >>
    /\ UNCHANGED client

\* ------------------------------------------------------------- chunker

\* A process that is about to chunk a transcript.
InitChunker ==
    /\ InitStore
    /\ available = FALSE
    /\ chunked \in [messages : Transcripts, chunks : {None}]
    /\ embedder = UnusedEmbedder
    /\ parse_call = NoParsed
    /\ second = NoSecond
    /\ semantic_call = NoSemantic
    /\ call = NoCall
    /\ summary_cache = NoSummaryCache
    /\ database = NoDatabase
    /\ metadata_cache = NoMetadataCache
    /\ fts = NoFts

\* chunker.create_turn_chunks(session, messages, start_index) is called (by
\* chunk_session, after the summary chunk) and returns.
CreateTurnChunks ==
    /\ chunked.chunks = None
    /\ chunked' = [chunked EXCEPT
                      !.chunks = Some(create_turn_chunks("p", chunked.messages, 1))]
    /\ UNCHANGED << clock, files, sessions, messages, chunks, nextChunkId,
                    summaries, pc, work, cur, stats, seen, available, cache,
                    searched, readResult, metadata, lastRun, ranking,
                    semantic_searches, project_stats, embedder, parse_call, second, semantic_call, call, summary_cache, database, metadata_cache, fts >>

\* EmbeddingGenerator.embed_query: None without an embedder or a query, and
\* None when the API call raises (api_ok is whether it answers).
embed_query_WithoutEmbedder(avail, api_ok, query) ==
    IF query = "" THEN None ELSE Some(query)

embed_query(avail, api_ok, query) ==
    IF ~avail \/ query = "" \/ ~api_ok THEN None ELSE Some(query)

\* ---------------------------------------------------------- the embedder

\* The values of OPENAI_API_KEY: unset, empty, a key.
ApiKeys == {Null, "", "sk-key"}

EmbedderTexts == { << >>, << "hello" >>, << "hello", "ok" >> }

\* Chunk lists handed to embed_chunks; one chunk carries an embedding.
EmbedderChunks ==
    { << >>,
      << [chunk_index |-> 0, content |-> "hello", embedding |-> << >>] >>,
      << [chunk_index |-> 0, content |-> "hello", embedding |-> << >>],
         [chunk_index |-> 1, content |-> "ok", embedding |-> << "old" >>] >> }

\* A process constructs its EmbeddingGenerator in some environment.
InitCredentials ==
    /\ InitStore
    /\ chunked = NoChunked
    /\ parse_call = NoParsed
    /\ second = NoSecond
    /\ semantic_call = NoSemantic
    /\ call = NoCall
    /\ summary_cache = NoSummaryCache
    /\ database = NoDatabase
    /\ metadata_cache = NoMetadataCache
    /\ fts = NoFts
    /\ \E has_openai \in BOOLEAN, api_key \in ApiKeys, ctor_ok \in BOOLEAN :
          /\ available = _initialize_client(has_openai, api_key, ctor_ok)
          /\ embedder = [env |-> << [has_openai |-> has_openai,
                                     api_key |-> api_key,
                                     ctor_ok |-> ctor_ok] >>,
                         calls |-> 0, call |-> << >>, result |-> << >>]

\* embedder.embed_texts(texts) is called and returns.
EmbedTexts(texts, api_ok) ==
    LET res == embed_texts(available, api_ok, texts)
    IN  /\ embedder.calls + res.calls <= MaxCalls
        /\ embedder' = [embedder EXCEPT
                          !.calls = @ + res.calls,
                          !.call = << [op |-> "embed_texts", arg |-> texts] >>,
                          !.result = << res.value >>]
        /\ UNCHANGED << clock, files, sessions, messages, chunks, nextChunkId,
                        summaries, pc, work, cur, stats, seen, available, cache,
                        searched, readResult, metadata, lastRun, ranking,
                        semantic_searches, chunked, project_stats, parse_call, second, semantic_call, call, summary_cache, database, metadata_cache, fts >>

\* embedder.embed_query(query) is called and returns.
EmbedQuery(query, api_ok) ==
    LET asked == IF available /\ query # "" THEN 1 ELSE 0
    IN  /\ embedder.calls + asked <= MaxCalls
        /\ embedder' = [embedder EXCEPT
                          !.calls = @ + asked,
                          !.call = << [op |-> "embed_query", arg |-> query] >>,
                          !.result = << embed_query(available, api_ok, query) >>]
        /\ UNCHANGED << clock, files, sessions, messages, chunks, nextChunkId,
                        summaries, pc, work, cur, stats, seen, available, cache,
                        searched, readResult, metadata, lastRun, ranking,
                        semantic_searches, chunked, project_stats, parse_call, second, semantic_call, call, summary_cache, database, metadata_cache, fts >>

\* embedder.embed_chunks(chunks) is called and returns: one batch, one
\* embed_texts call; when the API call raises no chunk gets an embedding.
EmbedChunks(chks, api_ok) ==
    LET asked == IF available /\ chks # << >> THEN 1 ELSE 0
    IN  /\ embedder.calls + asked <= MaxCalls
        /\ embedder' = [embedder EXCEPT
                          !.calls = @ + asked,
                          !.call = << [op |-> "embed_chunks", arg |-> chks] >>,
                          !.result = << IF api_ok
                                        THEN embed_chunks(available, chks)
                                        ELSE chks >>]
        /\ UNCHANGED << clock, files, sessions, messages, chunks, nextChunkId,
                        summaries, pc, work, cur, stats, seen, available, cache,
                        searched, readResult, metadata, lastRun, ranking,
                        semantic_searches, chunked, project_stats, parse_call, second, semantic_call, call, summary_cache, database, metadata_cache, fts >>

\* n chunks of a few characters, and the chunks of a list of contents.
SmallChunks(n) ==
    [i \in 1..n |-> [chunk_index |-> i - 1, content |-> "hello", embedding |-> << >>]]

ChunksOf(contents) ==
    [i \in 1..Len(contents) |->
        [chunk_index |-> i - 1, content |-> contents[i], embedding |-> << >>]]

\* The chunk lists of the batching checks: up to BATCH_SIZE chunks and one
\* more; chunks whose estimated tokens together pass MAX_BATCH_TOKENS; a
\* chunk that passes it alone.
BatchedChunks ==
    { SmallChunks(n) : n \in {0, 1, 2, BATCH_SIZE, BATCH_SIZE + 1} }
    \cup { ChunksOf(contents) :
             contents \in { << BigText, BigText >>, << BigText, "hello", BigText >>,
                            << HugeText >>, << "hello", HugeText, "ok" >>,
                            << BigText, "" >> } }

\* embedder.embed_chunks(chunks) is called and returns, each of its remote
\* calls answering or not.
EmbedChunkBatches(chks) ==
    \E oks \in [1..(IF available
                    THEN Len(RemoteCalls(TokenBatches(chks, 1))) ELSE 0)
                  -> BOOLEAN] :
        LET res == embed_chunk_batches(available, chks, oks)
        IN  /\ embedder.calls + Len(res.sent) <= MaxBatchCalls
            /\ embedder' = [embedder EXCEPT
                              !.calls = @ + Len(res.sent),
                              !.call = << [op |-> "embed_chunks", arg |-> chks,
                                           sent |-> res.sent, oks |-> oks] >>,
                              !.result = << res.value >>]
            /\ UNCHANGED << clock, files, sessions, messages, chunks, nextChunkId,
                            summaries, pc, work, cur, stats, seen, available, cache,
                            searched, readResult, metadata, lastRun, ranking,
                            semantic_searches, chunked, project_stats, parse_call,
                            second, semantic_call, call, summary_cache, database, metadata_cache, fts >>

\* A process hands chunk lists to its embedder.
NextBatches ==
    \E chks \in BatchedChunks : EmbedChunkBatches(chks)

SpecBatches == InitCredentials /\ [][NextBatches]_vars

\* cmd_generate_embeddings, run as a command of its own whose process has
\* the key (avail) or not.  The chunks to embed are the rows of
\* get_all_chunk_embeddings (those WHERE embedding IS NOT NULL) whose
\* embedding is None.  For each of them the first row of its session whose
\* chunk_index equals the second column (the row id) is embedded by
\* embed_chunks, and what comes back, serialized again, is written with
\* UPDATE ... WHERE id.  The command's message is kept as its result.
GenerateEmbeddings(avail) ==
    LET all_chunks == get_all_chunk_embeddings(chunks)
        chunks_without_embeddings == { t \in all_chunks : t[3] = None }
        rows == { c \in chunks :
                    \E t \in chunks_without_embeddings :
                        /\ c.session_id = t[1]
                        /\ c.chunk_index = t[2]
                        /\ \A d \in chunks :
                             (d.session_id = t[1] /\ d.chunk_index = t[2])
                                => c.id <= d.id }
        outcome == IF ~avail THEN "not configured"
                   ELSE IF chunks_without_embeddings = {}
                   THEN "all chunks already have embeddings"
                   ELSE "generated"
    IN  /\ chunks' = IF outcome # "generated" THEN chunks
                     ELSE { IF c \in rows
                            THEN [c EXCEPT !.embedding = Some(Some(c.content))]
                            ELSE c : c \in chunks }
        /\ embedder' = [embedder EXCEPT
                          !.call = << [op |-> "cmd_generate_embeddings",
                                       arg |-> avail] >>,
                          !.result = << outcome >>]
        /\ UNCHANGED << clock, files, sessions, messages, nextChunkId,
                        summaries, pc, work, cur, stats, seen, available, cache,
                        searched, readResult, metadata, lastRun, ranking,
                        semantic_searches, chunked, project_stats, parse_call, second, semantic_call, call, summary_cache, database, metadata_cache, fts >>

\* ------------------------------------------------------- the query parser

\* The blank-free pieces queries are made of: a word, the modifiers of the
\* four keys (one in capitals, one with a date that does not parse), a
\* modifier of another key, a modifier behind a hyphen, a key without a
\* value, and a value with a colon in it.
QueryTokens ==
    { << "JWT" >>,
      << "Harness", ":", "Droid" >>,
      << "project", ":", "api" >>,
      << "after", ":", "7d" >>,
      << "before", ":", "nope" >>,
      << "tag", ":", "v1" >>,
      << "see", "-", "harness", ":", "api" >>,
      << "harness", ":" >>,
      << "project", ":", "v1", ":", "api" >> }

RECURSIVE JoinTokens(_)
JoinTokens(tokens) ==
    IF tokens = << >> THEN << >>
    ELSE IF Len(tokens) = 1 THEN tokens[1]
    ELSE tokens[1] \o << " " >> \o JoinTokens(Tail(tokens))

\* The queries: up to MaxTokens pieces with one blank between them, with or
\* without a blank in front and at the end.
Queries ==
    { (IF lead THEN << " " >> ELSE << >>) \o JoinTokens(tokens)
        \o (IF trail THEN << " " >> ELSE << >>) :
        tokens \in UNION { [1..n -> QueryTokens] : n \in 1..MaxTokens },
        lead \in BOOLEAN, trail \in BOOLEAN }

\* A search box with a query typed into it.
InitParser ==
    /\ InitStore
    /\ available = FALSE
    /\ chunked = NoChunked
    /\ embedder = UnusedEmbedder
    /\ parse_call \in [query : Queries, result : {None}]
    /\ second = NoSecond
    /\ semantic_call = NoSemantic
    /\ call = NoCall
    /\ summary_cache = NoSummaryCache
    /\ database = NoDatabase
    /\ metadata_cache = NoMetadataCache
    /\ fts = NoFts

\* parse_search_query(query) is called and returns.
ParseSearchQuery ==
    /\ parse_call.result = None
    /\ parse_call' = [parse_call EXCEPT
                         !.result = Some(parse_search_query(parse_call.query))]
    /\ UNCHANGED << clock, files, sessions, messages, chunks, nextChunkId,
                    summaries, pc, work, cur, stats, seen, available, cache,
                    searched, readResult, metadata, lastRun, ranking,
                    semantic_searches, chunked, project_stats, embedder, second, semantic_call, call, summary_cache, database, metadata_cache, fts >>

\* The matches of the tagger checks: tool matches with a repeated and an
\* agent-do tag, no activity, one, or all ten; technology matches with
\* repeats, and more than five tags.
TaggerMatches ==
    [tools : { << >>, << "tool:git" >>,
               << "tool:agent-do-browse", "tool:git", "tool:git" >> },
     activities : { {}, {"testing"}, {"testing", "debugging"},
                    Range(ACTIVITY_PATTERNS) },
     techs : { << >>, << "python" >>, << "python", "python", "docker" >>,
               << "react", "python", "rust", "docker", "docker", "git", "api" >> }]

\* A generate_tags call on a session with these matches, project name and
\* harness.
InitTagger ==
    /\ InitStore
    /\ available = FALSE
    /\ chunked = NoChunked
    /\ embedder = UnusedEmbedder
    /\ parse_call = NoParsed
    /\ second = NoSecond
    /\ semantic_call = NoSemantic
    /\ summary_cache = NoSummaryCache
    /\ database = NoDatabase
    /\ metadata_cache = NoMetadataCache
    /\ fts = NoFts
    /\ call \in [op : {"generate_tags"},
                 arg : [matches : TaggerMatches, project_name : {Null, "pa", "Pa"},
                        harness : {"opencode", "Droid"}],
                 result : {None}]

\* tagger.generate_tags(session, messages) is called and returns.
GenerateTags ==
    /\ call.op = "generate_tags"
    /\ call.result = None
    /\ call' = [call EXCEPT
                  !.result = Some(tags_of(call.arg.matches, call.arg.project_name,
                                          call.arg.harness))]
    /\ UNCHANGED << clock, files, sessions, messages, chunks, nextChunkId,
                    summaries, pc, work, cur, stats, seen, available, cache,
                    searched, readResult, metadata, lastRun, ranking,
                    semantic_searches, chunked, project_stats, embedder,
                    parse_call, second, semantic_call, summary_cache, database, metadata_cache, fts >>

SpecTagger == InitTagger /\ [][GenerateTags]_vars

\* _index_session's first_prompt_preview for a first prompt given as the
\* sequence of its characters (None, or Some of the sequence): None for no
\* or an empty prompt, else first_prompt[:200], with "..." appended when the
\* prompt is longer.
first_prompt_preview(first_prompt) ==
    IF first_prompt = None \/ first_prompt = Some(<< >>) THEN None
    ELSE IF Len(first_prompt[1]) > 200
    THEN Some(Take(first_prompt[1], 200) \o << ".", ".", "." >>)
    ELSE Some(Take(first_prompt[1], 200))

\* The first prompts of the preview checks: none, and every length up to
\* MaxPromptChars.
FirstPrompts ==
    {None} \cup { Some([i \in 1..n |-> "x"]) : n \in 0..MaxPromptChars }

InitPreview ==
    /\ InitStore
    /\ available = FALSE
    /\ chunked = NoChunked
    /\ embedder = UnusedEmbedder
    /\ parse_call = NoParsed
    /\ second = NoSecond
    /\ semantic_call = NoSemantic
    /\ call \in [op : {"first_prompt_preview"}, arg : FirstPrompts, result : {None}]
    /\ summary_cache = NoSummaryCache
    /\ database = NoDatabase
    /\ metadata_cache = NoMetadataCache
    /\ fts = NoFts

\* _index_session computes the preview of its session's first prompt.
FirstPromptPreview ==
    /\ call.op = "first_prompt_preview"
    /\ call.result = None
    /\ call' = [call EXCEPT !.result = Some(first_prompt_preview(call.arg))]
    /\ UNCHANGED << clock, files, sessions, messages, chunks, nextChunkId,
                    summaries, pc, work, cur, stats, seen, available, cache,
                    searched, readResult, metadata, lastRun, ranking,
                    semantic_searches, chunked, project_stats, embedder,
                    parse_call, second, semantic_call, summary_cache, database, metadata_cache, fts >>

SpecPreview == InitPreview /\ [][FirstPromptPreview]_vars

\* ------------------------------------------------------ the summary cache

\* The threads that use the SummaryCache, the session ids, content hashes
\* and summaries they pass.
CacheThreads == {"t1", "t2"}
ContentHashes == {"h1", "h2"}
SummaryValues == {"s1", "s2"}

\* A thread that holds no SummaryCache and is in no call.
IdleThread == [pc |-> "idle", self |-> None, got |-> None]

\* The process starts with no SummaryCache; the cache file is missing or
\* holds an empty dict.
InitSummaryCache ==
    /\ InitStore
    /\ available = FALSE
    /\ chunked = NoChunked
    /\ embedder = UnusedEmbedder
    /\ parse_call = NoParsed
    /\ second = NoSecond
    /\ semantic_call = NoSemantic
    /\ call = NoCall
    /\ database = NoDatabase
    /\ metadata_cache = NoMetadataCache
    /\ fts = NoFts
    /\ \E disk \in {None, Some(<< >>)} :
          summary_cache = [instance |-> None, objects |-> << >>, disk |-> disk,
                           threads |-> [t \in CacheThreads |-> IdleThread],
                           written |-> << >>]

\* thread t moves to pc
Goto(t, to) == [summary_cache.threads EXCEPT ![t].pc = to]

\* An attribute of the object that cls._instance names now is assigned.
SetAttribute(attribute, value) ==
    [summary_cache.objects EXCEPT
       ![summary_cache.instance[1]] =
          CASE attribute = "_data" -> [@ EXCEPT !._data = value]
            [] attribute = "_dirty" -> [@ EXCEPT !._dirty = value]
            [] OTHER -> [@ EXCEPT !._cache_path = value]]

\* SummaryCache.__new__, "if cls._instance is None": no lock is taken.
NewCheck(t) ==
    /\ summary_cache.threads[t].pc = "idle"
    /\ summary_cache' =
         [summary_cache EXCEPT
            !.threads = Goto(t, IF summary_cache.instance = None
                                THEN "new" ELSE "return")]
    /\ UNCHANGED << clock, files, sessions, messages, chunks, nextChunkId,
                    summaries, pc, work, cur, stats, seen, available, cache,
                    searched, readResult, metadata, lastRun, ranking,
                    semantic_searches, chunked, project_stats, embedder,
                    parse_call, second, semantic_call, call, database, metadata_cache, fts >>

\* "cls._instance = super().__new__(cls)": an object without attributes
NewObject(t) ==
    /\ summary_cache.threads[t].pc = "new"
    /\ LET id == Cardinality(DOMAIN summary_cache.objects) + 1
       IN  summary_cache' =
             [summary_cache EXCEPT
                !.instance = Some(id),
                !.objects = @ @@ (id :> [_cache_path |-> None, _data |-> None,
                                          _dirty |-> None]),
                !.threads = Goto(t, "_cache_path")]
    /\ UNCHANGED << clock, files, sessions, messages, chunks, nextChunkId,
                    summaries, pc, work, cur, stats, seen, available, cache,
                    searched, readResult, metadata, lastRun, ranking,
                    semantic_searches, chunked, project_stats, embedder,
                    parse_call, second, semantic_call, call, database, metadata_cache, fts >>

\* "cls._instance._cache_path = cache_path or DEFAULT_CACHE_PATH",
\* "cls._instance._data = {}" and "cls._instance._dirty = False", each on
\* the object that cls._instance names when the statement runs.
NewAttribute(t) ==
    /\ summary_cache.threads[t].pc \in {"_cache_path", "_data", "_dirty"}
    /\ LET at == summary_cache.threads[t].pc
       IN  summary_cache' =
             [summary_cache EXCEPT
                !.objects = SetAttribute(at, CASE at = "_data" -> Some(<< >>)
                                               [] at = "_dirty" -> Some(FALSE)
                                               [] OTHER -> Some("summaries.json")),
                !.threads = Goto(t, CASE at = "_cache_path" -> "_data"
                                      [] at = "_data" -> "_dirty"
                                      [] OTHER -> "_load")]
    /\ UNCHANGED << clock, files, sessions, messages, chunks, nextChunkId,
                    summaries, pc, work, cur, stats, seen, available, cache,
                    searched, readResult, metadata, lastRun, ranking,
                    semantic_searches, chunked, project_stats, embedder,
                    parse_call, second, semantic_call, call, database, metadata_cache, fts >>

\* "cls._instance._load()": the dict of the cache file when there is one
NewLoad(t) ==
    /\ summary_cache.threads[t].pc = "_load"
    /\ summary_cache' =
         [summary_cache EXCEPT
            !.objects = IF summary_cache.disk = None THEN @
                        ELSE SetAttribute("_data", summary_cache.disk),
            !.threads = Goto(t, "return")]
    /\ UNCHANGED << clock, files, sessions, messages, chunks, nextChunkId,
                    summaries, pc, work, cur, stats, seen, available, cache,
                    searched, readResult, metadata, lastRun, ranking,
                    semantic_searches, chunked, project_stats, embedder,
                    parse_call, second, semantic_call, call, database, metadata_cache, fts >>

\* "return cls._instance"
NewReturn(t) ==
    /\ summary_cache.threads[t].pc = "return"
    /\ summary_cache' =
         [summary_cache EXCEPT
            !.threads = [@ EXCEPT ![t] = [pc |-> "idle",
                                          self |-> summary_cache.instance,
                                          got |-> None]]]
    /\ UNCHANGED << clock, files, sessions, messages, chunks, nextChunkId,
                    summaries, pc, work, cur, stats, seen, available, cache,
                    searched, readResult, metadata, lastRun, ranking,
                    semantic_searches, chunked, project_stats, embedder,
                    parse_call, second, semantic_call, call, database, metadata_cache, fts >>

\* SummaryCache.set under self._lock, by a thread on the object it was
\* given; an object without _data yet raises AttributeError.
SummarySet(t, session_id, content_hash, summary) ==
    /\ summary_cache.threads[t].pc = "idle"
    /\ summary_cache.threads[t].self # None
    /\ LET id == summary_cache.threads[t].self[1]
           object == summary_cache.objects[id]
       IN  IF object._data = None
           THEN summary_cache' =
                  [summary_cache EXCEPT
                     !.threads = [@ EXCEPT ![t].got =
                        Some([op |-> "set", session_id |-> session_id,
                              content_hash |-> content_hash,
                              value |-> "AttributeError",
                              written |-> summary_cache.written])]]
           ELSE summary_cache' =
                  [summary_cache EXCEPT
                     !.objects = [@ EXCEPT ![id] =
                        [@ EXCEPT !._data =
                            Some((session_id :> [hash |-> content_hash,
                                                 summary |-> summary])
                                 @@ object._data[1]),
                                  !._dirty = Some(TRUE)]],
                     !.written = (session_id :> [hash |-> content_hash,
                                                 summary |-> summary]) @@ @,
                     !.threads = [@ EXCEPT ![t].got = None]]
    /\ UNCHANGED << clock, files, sessions, messages, chunks, nextChunkId,
                    summaries, pc, work, cur, stats, seen, available, cache,
                    searched, readResult, metadata, lastRun, ranking,
                    semantic_searches, chunked, project_stats, embedder,
                    parse_call, second, semantic_call, call, database, metadata_cache, fts >>

\* SummaryCache.get under self._lock: the summary when the entry's hash is
\* content_hash, else None; written is what the last set of every key was
\* when the call ran.
SummaryGet(t, session_id, content_hash) ==
    /\ summary_cache.threads[t].pc = "idle"
    /\ summary_cache.threads[t].self # None
    /\ LET id == summary_cache.threads[t].self[1]
           object == summary_cache.objects[id]
           value ==
               IF object._data = None THEN "AttributeError"
               ELSE IF session_id \in DOMAIN object._data[1]
                       /\ object._data[1][session_id].hash = content_hash
               THEN object._data[1][session_id].summary
               ELSE Null
       IN  summary_cache' =
             [summary_cache EXCEPT
                !.threads = [@ EXCEPT ![t].got =
                   Some([op |-> "get", session_id |-> session_id,
                         content_hash |-> content_hash, value |-> value,
                         written |-> summary_cache.written])]]
    /\ UNCHANGED << clock, files, sessions, messages, chunks, nextChunkId,
                    summaries, pc, work, cur, stats, seen, available, cache,
                    searched, readResult, metadata, lastRun, ranking,
                    semantic_searches, chunked, project_stats, embedder,
                    parse_call, second, semantic_call, call, database, metadata_cache, fts >>

\* Two threads construct the SummaryCache and use it.
NextSummaryCache ==
    \E t \in CacheThreads :
        \/ NewCheck(t)
        \/ NewObject(t)
        \/ NewAttribute(t)
        \/ NewLoad(t)
        \/ NewReturn(t)
        \/ \E content_hash \in ContentHashes, summary \in SummaryValues :
              SummarySet(t, "p", content_hash, summary)
        \/ \E content_hash \in ContentHashes : SummaryGet(t, "p", content_hash)

SpecSummaryCache == InitSummaryCache /\ [][NextSummaryCache]_vars

\* --------------------------------------------------- the Store singleton

\* The threads that construct the SessionDatabase, and the db_path they pass
\* (None: the default path).
DatabaseThreads == {"t1", "t2"}
DbPaths == {None, Some("other.db")}
DEFAULT_DB_PATH == "sessions.db"

InitDatabase ==
    /\ InitStore
    /\ available = FALSE
    /\ chunked = NoChunked
    /\ embedder = UnusedEmbedder
    /\ parse_call = NoParsed
    /\ second = NoSecond
    /\ semantic_call = NoSemantic
    /\ call = NoCall
    /\ summary_cache = NoSummaryCache
    /\ metadata_cache = NoMetadataCache
    /\ fts = NoFts
    /\ database = [instance |-> None, objects |-> << >>, lock |-> None,
                   threads |-> [t \in DatabaseThreads |->
                                  [pc |-> "idle", db_path |-> None, self |-> None]],
                   resets |-> 0]

\* SessionDatabase.__new__(cls, db_path), the first "if cls._instance is
\* None", outside the lock.
DbCheck(t, db_path) ==
    /\ database.threads[t].pc = "idle"
    /\ database' =
         [database EXCEPT
            !.threads = [@ EXCEPT ![t] =
               [pc |-> IF database.instance = None THEN "lock" ELSE "return",
                db_path |-> db_path, self |-> None]]]
    /\ UNCHANGED << clock, files, sessions, messages, chunks, nextChunkId,
                    summaries, pc, work, cur, stats, seen, available, cache,
                    searched, readResult, metadata, lastRun, ranking,
                    semantic_searches, chunked, project_stats, embedder,
                    parse_call, second, semantic_call, call, summary_cache, metadata_cache, fts >>

\* "with cls._lock:" the thread gets the lock when no thread holds it.
DbAcquire(t) ==
    /\ database.threads[t].pc = "lock"
    /\ database.lock = None
    /\ database' = [database EXCEPT !.lock = Some(t),
                                    !.threads = [@ EXCEPT ![t].pc = "locked"]]
    /\ UNCHANGED << clock, files, sessions, messages, chunks, nextChunkId,
                    summaries, pc, work, cur, stats, seen, available, cache,
                    searched, readResult, metadata, lastRun, ranking,
                    semantic_searches, chunked, project_stats, embedder,
                    parse_call, second, semantic_call, call, summary_cache, metadata_cache, fts >>

\* Under the lock, with the second test dropped: an object is created
\* whatever cls._instance is.
DbCreate_NoSecondCheck(t) ==
    /\ database.threads[t].pc = "locked"
    /\ Cardinality(DOMAIN database.objects) <= MaxResets + 1
    /\ LET id == Cardinality(DOMAIN database.objects) + 1
           db_path == database.threads[t].db_path
       IN  database' =
             [database EXCEPT
                !.instance = Some(id),
                !.objects = @ @@ (id :> [_db_path |-> IF db_path = None
                                                        THEN DEFAULT_DB_PATH
                                                        ELSE db_path[1],
                                          _connection |-> "none",
                                          epoch |-> database.resets]),
                !.lock = None,
                !.threads = [@ EXCEPT ![t].pc = "return"]]
    /\ UNCHANGED << clock, files, sessions, messages, chunks, nextChunkId,
                    summaries, pc, work, cur, stats, seen, available, cache,
                    searched, readResult, metadata, lastRun, ranking,
                    semantic_searches, chunked, project_stats, embedder,
                    parse_call, second, semantic_call, call, summary_cache, metadata_cache, fts >>

\* Under the lock: "if cls._instance is None:" again, and then the new
\* object, with _db_path = db_path or DEFAULT_DB_PATH and no connection,
\* is assigned to cls._instance; the lock is released.  epoch records the
\* number of resets before the object was created.
DbCreate(t) ==
    /\ database.threads[t].pc = "locked"
    /\ IF database.instance # None
       THEN database' = [database EXCEPT !.lock = None,
                                         !.threads = [@ EXCEPT ![t].pc = "return"]]
       ELSE LET id == Cardinality(DOMAIN database.objects) + 1
                db_path == database.threads[t].db_path
            IN  database' =
                  [database EXCEPT
                     !.instance = Some(id),
                     !.objects = @ @@ (id :> [_db_path |-> IF db_path = None
                                                             THEN DEFAULT_DB_PATH
                                                             ELSE db_path[1],
                                               _connection |-> "none",
                                               epoch |-> database.resets]),
                     !.lock = None,
                     !.threads = [@ EXCEPT ![t].pc = "return"]]
    /\ UNCHANGED << clock, files, sessions, messages, chunks, nextChunkId,
                    summaries, pc, work, cur, stats, seen, available, cache,
                    searched, readResult, metadata, lastRun, ranking,
                    semantic_searches, chunked, project_stats, embedder,
                    parse_call, second, semantic_call, call, summary_cache, metadata_cache, fts >>

\* "return cls._instance"
DbReturn(t) ==
    /\ database.threads[t].pc = "return"
    /\ database' = [database EXCEPT
                      !.threads = [@ EXCEPT ![t].pc = "idle",
                                            ![t].self = database.instance]]
    /\ UNCHANGED << clock, files, sessions, messages, chunks, nextChunkId,
                    summaries, pc, work, cur, stats, seen, available, cache,
                    searched, readResult, metadata, lastRun, ranking,
                    semantic_searches, chunked, project_stats, embedder,
                    parse_call, second, semantic_call, call, summary_cache, metadata_cache, fts >>

\* SessionDatabase._get_connection on the object a thread was given: the
\* connection is opened when there is none.
DbGetConnection(t) ==
    /\ database.threads[t].pc = "idle"
    /\ database.threads[t].self # None
    /\ database.objects[database.threads[t].self[1]]._connection = "none"
    /\ database' = [database EXCEPT
                      !.objects = [@ EXCEPT ![database.threads[t].self[1]]._connection
                                               = "open"]]
    /\ UNCHANGED << clock, files, sessions, messages, chunks, nextChunkId,
                    summaries, pc, work, cur, stats, seen, available, cache,
                    searched, readResult, metadata, lastRun, ranking,
                    semantic_searches, chunked, project_stats, embedder,
                    parse_call, second, semantic_call, call, summary_cache, metadata_cache, fts >>

\* SessionDatabase.reset_instance, all of it under cls._lock: the connection
\* of the instance, when it has one, is closed, and cls._instance is None.
ResetInstance(t) ==
    /\ database.threads[t].pc = "idle"
    /\ database.lock = None
    /\ database.resets < MaxResets
    /\ database' =
         [database EXCEPT
            !.resets = @ + 1,
            !.instance = None,
            !.objects = IF database.instance = None THEN @
                        ELSE [@ EXCEPT ![database.instance[1]]._connection =
                                 IF @ = "open" THEN "closed" ELSE @]]
    /\ UNCHANGED << clock, files, sessions, messages, chunks, nextChunkId,
                    summaries, pc, work, cur, stats, seen, available, cache,
                    searched, readResult, metadata, lastRun, ranking,
                    semantic_searches, chunked, project_stats, embedder,
                    parse_call, second, semantic_call, call, summary_cache, metadata_cache, fts >>

NextDatabase ==
    \E t \in DatabaseThreads :
        \/ \E db_path \in DbPaths : DbCheck(t, db_path)
        \/ DbAcquire(t)
        \/ DbCreate(t)
        \/ DbReturn(t)
        \/ DbGetConnection(t)
        \/ ResetInstance(t)

SpecDatabase == InitDatabase /\ [][NextDatabase]_vars

\* ----------------------------------------------------- the metadata cache

\* The st_mtime values and contents of the session file "p", and the
\* metadata parse_session derives from a content.
Mtimes == {1, 2}
Contents == {"a", "b"}
MetadataOf(content) == [first_prompt |-> content]

\* MetadataCache.get with the mtime ignored.
MetadataCache_get_AnyMtime(data, key, mtime) ==
    IF key \in DOMAIN data THEN Some(data[key].metadata) ELSE None

\* MetadataCache.get: "entry = self._data.get(key); if entry and
\* entry.get("mtime") == mtime: return entry.get("metadata")", else None.
MetadataCache_get(data, key, mtime) ==
    IF key \in DOMAIN data /\ data[key].mtime = mtime
    THEN Some(data[key].metadata) ELSE None

\* MetadataCache.set: the entry replaces the one of its key.
MetadataCache_set(data, key, mtime, meta) ==
    (key :> [mtime |-> mtime, metadata |-> meta]) @@ data

\* The process has constructed its MetadataCache with no cache file, and
\* the session file "p" exists.
InitMetadataCache ==
    /\ InitStore
    /\ available = FALSE
    /\ chunked = NoChunked
    /\ embedder = UnusedEmbedder
    /\ parse_call = NoParsed
    /\ second = NoSecond
    /\ semantic_call = NoSemantic
    /\ call = NoCall
    /\ summary_cache = NoSummaryCache
    /\ database = NoDatabase
    /\ fts = NoFts
    /\ \E mtime \in Mtimes, content \in Contents :
          metadata_cache = [NoMetadataCache EXCEPT
                              !.file = Some([mtime |-> mtime, content |-> content])]

\* The session file is rewritten: another content, and any st_mtime.
TouchFile(mtime, content) ==
    /\ metadata_cache' = [metadata_cache EXCEPT
                            !.file = Some([mtime |-> mtime, content |-> content])]
    /\ UNCHANGED << clock, files, sessions, messages, chunks, nextChunkId,
                    summaries, pc, work, cur, stats, seen, available, cache,
                    searched, readResult, metadata, lastRun, ranking,
                    semantic_searches, chunked, project_stats, embedder,
                    parse_call, second, semantic_call, call, summary_cache,
                    database, fts >>

\* cache.set(file_path, mtime, metadata)
MetadataSet(key, mtime, meta) ==
    /\ metadata_cache' =
         [metadata_cache EXCEPT
            !._data = MetadataCache_set(@, key, mtime, meta),
            !._dirty = TRUE,
            !.sets = (key :> [mtime |-> mtime, metadata |-> meta]) @@ @,
            !.unsaved = TRUE,
            !.got = None]
    /\ UNCHANGED << clock, files, sessions, messages, chunks, nextChunkId,
                    summaries, pc, work, cur, stats, seen, available, cache,
                    searched, readResult, metadata, lastRun, ranking,
                    semantic_searches, chunked, project_stats, embedder,
                    parse_call, second, semantic_call, call, summary_cache,
                    database, fts >>

\* cache.get(file_path, mtime); sets is what the last set of every key was
\* when the call ran.
MetadataGet(key, mtime) ==
    /\ metadata_cache' =
         [metadata_cache EXCEPT
            !.got = Some([op |-> "get", key |-> key, mtime |-> mtime,
                          value |-> MetadataCache_get(metadata_cache._data, key, mtime),
                          sets |-> metadata_cache.sets])]
    /\ UNCHANGED << clock, files, sessions, messages, chunks, nextChunkId,
                    summaries, pc, work, cur, stats, seen, available, cache,
                    searched, readResult, metadata, lastRun, ranking,
                    semantic_searches, chunked, project_stats, embedder,
                    parse_call, second, semantic_call, call, summary_cache,
                    database, fts >>

\* ClaudeCodeProvider.parse_session(path): st_mtime, the cache lookup, and
\* on a miss the parse of the file and cache.set with that mtime.
ParseSession(key) ==
    LET file == metadata_cache.file[1]
        cached == MetadataCache_get(metadata_cache._data, key, file.mtime)
    IN  /\ IF cached # None
           THEN metadata_cache' =
                  [metadata_cache EXCEPT
                     !.got = Some([op |-> "parse_session", key |-> key,
                                   mtime |-> file.mtime, value |-> cached,
                                   sets |-> metadata_cache.sets])]
           ELSE metadata_cache' =
                  [metadata_cache EXCEPT
                     !._data = MetadataCache_set(@, key, file.mtime,
                                                 MetadataOf(file.content)),
                     !._dirty = TRUE,
                     !.sets = (key :> [mtime |-> file.mtime,
                                       metadata |-> MetadataOf(file.content)]) @@ @,
                     !.unsaved = TRUE,
                     !.got = Some([op |-> "parse_session", key |-> key,
                                   mtime |-> file.mtime, value |-> None,
                                   sets |-> metadata_cache.sets])]
        /\ UNCHANGED << clock, files, sessions, messages, chunks, nextChunkId,
                        summaries, pc, work, cur, stats, seen, available,
                        cache, searched, readResult, metadata, lastRun,
                        ranking, semantic_searches, chunked, project_stats,
                        embedder, parse_call, second, semantic_call, call,
                        summary_cache, database, fts >>

\* MetadataCache.save with the dirty test dropped.
MetadataSave_Always(io_ok) ==
    /\ metadata_cache.writes < MaxWrites
    /\ metadata_cache' =
         IF ~io_ok THEN [metadata_cache EXCEPT !.got = None]
         ELSE [metadata_cache EXCEPT
                 !.disk = Some(metadata_cache._data), !._dirty = FALSE,
                 !.writes = @ + 1, !.unsaved = FALSE, !.got = None]
    /\ UNCHANGED << clock, files, sessions, messages, chunks, nextChunkId,
                    summaries, pc, work, cur, stats, seen, available, cache,
                    searched, readResult, metadata, lastRun, ranking,
                    semantic_searches, chunked, project_stats, embedder,
                    parse_call, second, semantic_call, call, summary_cache,
                    database, fts >>

\* MetadataCache.save: nothing when not dirty; else the dict is written, and
\* the flag cleared, unless the file cannot be opened (IOError).
MetadataSave(io_ok) ==
    /\ metadata_cache.writes < MaxWrites
    /\ metadata_cache' =
         IF ~metadata_cache._dirty \/ ~io_ok
         THEN [metadata_cache EXCEPT !.got = None]
         ELSE [metadata_cache EXCEPT
                 !.disk = Some(metadata_cache._data), !._dirty = FALSE,
                 !.writes = @ + 1, !.unsaved = FALSE, !.got = None]
    /\ UNCHANGED << clock, files, sessions, messages, chunks, nextChunkId,
                    summaries, pc, work, cur, stats, seen, available, cache,
                    searched, readResult, metadata, lastRun, ranking,
                    semantic_searches, chunked, project_stats, embedder,
                    parse_call, second, semantic_call, call, summary_cache,
                    database, fts >>

NextMetadataCache ==
    \/ \E mtime \in Mtimes, content \in Contents : TouchFile(mtime, content)
    \/ \E mtime \in Mtimes, content \in Contents :
          MetadataSet("p", mtime, MetadataOf(content))
    \/ \E mtime \in Mtimes : MetadataGet("p", mtime)
    \/ ParseSession("p")
    \/ \E io_ok \in BOOLEAN : MetadataSave(io_ok)

SpecMetadataCache == InitMetadataCache /\ [][NextMetadataCache]_vars

\* ----------------------------------------------------- the full-text tables

\* The words of the indexed columns, the message ids, and the rows the
\* statements write: the columns the triggers and the foreign keys read.
FtsWords == {"x", "y"}
FtsMessageIds == {"m1", "m2"}
FtsQueries == {"x"}
FtsSessionRows ==
    { r \in [id : SessionIds, parent_id : {Null, "p"}, project_name : {"proj"},
             first_prompt_preview : FtsWords, auto_tags : {<< >>}] :
        r.id = "p" => r.parent_id = Null }
FtsMessageRows ==
    [id : FtsMessageIds, session_id : SessionIds, role : {"user"},
     content : FtsWords, sequence : {0}]

\* The row lists of upsert_messages: one row, or the two messages of one
\* session as _index_session writes them.
FtsBatches ==
    { << r >> : r \in FtsMessageRows }
    \cup { << r1, r2 >> : r1 \in { r \in FtsMessageRows : r.id = "m1" },
                          r2 \in { r \in FtsMessageRows : r.id = "m2" } }

\* The rowid of a new row of a table without an INTEGER PRIMARY KEY: one more
\* than the largest rowid in the table.
NewRowid(rowids) ==
    IF DOMAIN rowids = {} THEN 1
    ELSE Max({ rowids[k] : k \in DOMAIN rowids }) + 1

\* What the index holds for a row: its rowid with the indexed columns.
MessagesFtsEntry(rowid, row) == << rowid, row.content >>
SessionsFtsEntry(rowid, row) ==
    << rowid, row.first_prompt_preview, row.project_name, row.auto_tags >>

\* TRIGGER messages_ai AFTER INSERT ON messages
messages_ai(F, id, new) ==
    [F EXCEPT !.messages_fts = @ \cup {MessagesFtsEntry(F.message_rowid[id], new)}]

\* The database without the trigger messages_ad.
messages_ad_Missing(F, id, old) == F

\* TRIGGER messages_ad AFTER DELETE ON messages: the 'delete' command with
\* OLD.rowid and OLD.content.
messages_ad(F, id, old) ==
    [F EXCEPT !.messages_fts = @ \ {MessagesFtsEntry(F.message_rowid[id], old)},
              !.removed = Some(old.content)]

\* TRIGGER messages_au AFTER UPDATE ON messages: 'delete' of OLD, insert of NEW
messages_au(F, id, old, new) ==
    LET rowid == F.message_rowid[id]
    IN  [F EXCEPT !.messages_fts = (@ \ {MessagesFtsEntry(rowid, old)})
                                      \cup {MessagesFtsEntry(rowid, new)},
                  !.removed = IF old.content # new.content
                              THEN Some(old.content) ELSE @]

\* TRIGGER sessions_ai, sessions_ad, sessions_au
sessions_ai(F, id, new) ==
    [F EXCEPT !.sessions_fts = @ \cup {SessionsFtsEntry(F.session_rowid[id], new)}]
sessions_ad(F, id, old) ==
    [F EXCEPT !.sessions_fts = @ \ {SessionsFtsEntry(F.session_rowid[id], old)}]
sessions_au(F, id, old, new) ==
    sessions_ai(sessions_ad(F, id, old), id, new)

\* One row of upsert_messages on the full-text side: ON CONFLICT DO UPDATE
\* keeps the rowid and fires messages_au, a new row takes a rowid and fires
\* messages_ai, a row that fails writes nothing.
FtsUpsertMessageRow(F, M, S, r) ==
    LET one == UpsertMessageRow(M, S, r)
    IN  IF ~one.ok THEN F
        ELSE IF r.id \in DOMAIN M
        THEN messages_au(F, r.id, M[r.id], one.messages[r.id])
        ELSE messages_ai([F EXCEPT !.message_rowid =
                                      (r.id :> NewRowid(@)) @@ @], r.id, r)

RECURSIVE FtsUpsertMessagesFrom(_, _, _, _, _)
FtsUpsertMessagesFrom(F, M, S, rows, i) ==
    IF i > Len(rows) THEN F
    ELSE LET one == UpsertMessageRow(M, S, rows[i])
         IN  IF one.ok
             THEN FtsUpsertMessagesFrom(FtsUpsertMessageRow(F, M, S, rows[i]),
                                        one.messages, S, rows, i + 1)
             ELSE F

RECURSIVE FtsDeleteMessages(_, _, _)
\* DELETE of the message rows ids, by the statement or by the cascade:
\* messages_ad fires for every row, and the rowid is free again.
FtsDeleteMessages(F, M, ids) ==
    IF ids = {} THEN F
    ELSE LET id == CHOOSE k \in ids : TRUE
             after == messages_ad(F, id, M[id])
         IN  FtsDeleteMessages(
                 [after EXCEPT !.message_rowid =
                                  [k \in DOMAIN @ \ {id} |-> @[k]]],
                 M, ids \ {id})

\* upsert_session on the full-text side.
FtsUpsertSession(F, S, row) ==
    IF ~upsert_session(S, row).ok THEN F
    ELSE IF row.id \in DOMAIN S
    THEN sessions_au(F, row.id, S[row.id], row)
    ELSE sessions_ai([F EXCEPT !.session_rowid =
                                  (row.id :> NewRowid(@)) @@ @], row.id, row)

RECURSIVE FtsSetNullChildren(_, _, _)
\* ON DELETE SET NULL updates the children: sessions_au fires for each.
FtsSetNullChildren(F, S, ids) ==
    IF ids = {} THEN F
    ELSE LET id == CHOOSE k \in ids : TRUE
         IN  FtsSetNullChildren(
                 sessions_au(F, id, S[id], [S[id] EXCEPT !.parent_id = Null]),
                 S, ids \ {id})

\* delete_session on the full-text side: sessions_ad for the row, the
\* update of its children, the cascade to its messages.
FtsDeleteSession(F, S, M, sid) ==
    LET gone == sessions_ad(F, sid, S[sid])
        rest == [gone EXCEPT !.session_rowid =
                                [k \in DOMAIN @ \ {sid} |-> @[k]]]
        kids == FtsSetNullChildren(rest, S, get_children(S, sid) \ {sid})
    IN  FtsDeleteMessages(kids, M, { k \in DOMAIN M : M[k].session_id = sid })

\* SessionDatabase.search_messages_fts as the statement runs: the rowids
\* whose indexed content matches, joined to the messages with these rowids,
\* grouped by session.
search_messages_fts_join(F, M, bm, query) ==
    LET rowids == { e[1] : e \in { e \in F.messages_fts : Matches(e[2], query) } }
        hit == { M[k].session_id :
                   k \in { k \in DOMAIN M : F.message_rowid[k] \in rowids } }
    IN  [sid \in hit |-> bm[sid]]

\* An empty database with its schema, full-text tables and triggers.
InitFts ==
    /\ InitStore
    /\ available = FALSE
    /\ chunked = NoChunked
    /\ embedder = UnusedEmbedder
    /\ parse_call = NoParsed
    /\ second = NoSecond
    /\ semantic_call = NoSemantic
    /\ call = NoCall
    /\ summary_cache = NoSummaryCache
    /\ database = NoDatabase
    /\ metadata_cache = NoMetadataCache
    /\ fts = NoFts

\* db.upsert_session(row)
DbUpsertSession(row) ==
    /\ row.id \in DOMAIN sessions \/ NewRowid(fts.session_rowid) <= MaxRowid
    /\ sessions' = upsert_session(sessions, row).sessions
    /\ fts' = [FtsUpsertSession(fts, sessions, row) EXCEPT !.result = None]
    /\ UNCHANGED << clock, files, messages, chunks, nextChunkId, summaries,
                    pc, work, cur, stats, seen, available, cache, searched,
                    readResult, metadata, lastRun, ranking, semantic_searches,
                    chunked, project_stats, embedder, parse_call, second,
                    semantic_call, call, summary_cache, database,
                    metadata_cache >>

\* db.upsert_messages(rows)
DbUpsertMessages(rows) ==
    LET after == FtsUpsertMessagesFrom(fts, messages, sessions, rows, 1)
    IN  /\ \A k \in DOMAIN after.message_rowid : after.message_rowid[k] <= MaxRowid
        /\ messages' = upsert_messages(messages, sessions, rows).messages
        /\ fts' = [after EXCEPT !.result = None]
        /\ UNCHANGED << clock, files, sessions, chunks, nextChunkId,
                        summaries, pc, work, cur, stats, seen, available,
                        cache, searched, readResult, metadata, lastRun,
                        ranking, semantic_searches, chunked, project_stats,
                        embedder, parse_call, second, semantic_call, call,
                        summary_cache, database, metadata_cache >>

\* db.delete_messages_for_session(sid), as _index_session calls it before
\* it writes the messages of a session again.
DbDeleteMessagesForSession(sid) ==
    /\ messages' = delete_messages_for_session(messages, sid)
    /\ fts' = [FtsDeleteMessages(fts, messages,
                   { k \in DOMAIN messages : messages[k].session_id = sid })
                 EXCEPT !.result = None]
    /\ UNCHANGED << clock, files, sessions, chunks, nextChunkId, summaries,
                    pc, work, cur, stats, seen, available, cache, searched,
                    readResult, metadata, lastRun, ranking, semantic_searches,
                    chunked, project_stats, embedder, parse_call, second,
                    semantic_call, call, summary_cache, database,
                    metadata_cache >>

\* db.delete_session(sid)
DbDeleteSession(sid) ==
    /\ sid \in DOMAIN sessions
    /\ sessions' = delete_session(sessions, sid)
    /\ messages' = delete_messages_for_session(messages, sid)
    /\ chunks' = delete_chunks_for_session(chunks, sid)
    /\ summaries' = [s \in DOMAIN summaries \ {sid} |-> summaries[s]]
    /\ fts' = [FtsDeleteSession(fts, sessions, messages, sid) EXCEPT !.result = None]
    /\ UNCHANGED << clock, files, nextChunkId, pc, work, cur, stats, seen,
                    available, cache, searched, readResult, metadata, lastRun,
                    ranking, semantic_searches, chunked, project_stats,
                    embedder, parse_call, second, semantic_call, call,
                    summary_cache, database, metadata_cache >>

\* db.search_messages_fts(query)
DbSearchMessagesFts(query) ==
    /\ fts' = [fts EXCEPT !.result =
                 Some([op |-> "search_messages_fts", query |-> query,
                       rows |-> search_messages_fts_join(
                                    fts, messages, ranking.bm25_messages, query)])]
    /\ UNCHANGED << clock, files, sessions, messages, chunks, nextChunkId,
                    summaries, pc, work, cur, stats, seen, available, cache,
                    searched, readResult, metadata, lastRun, ranking,
                    semantic_searches, chunked, project_stats, embedder,
                    parse_call, second, semantic_call, call, summary_cache,
                    database, metadata_cache >>

NextFts ==
    \/ \E row \in FtsSessionRows : DbUpsertSession(row)
    \/ \E rows \in FtsBatches : DbUpsertMessages(rows)
    \/ \E sid \in SessionIds : DbDeleteMessagesForSession(sid)
    \/ \E sid \in SessionIds : DbDeleteSession(sid)
    \/ \E query \in FtsQueries : DbSearchMessagesFts(query)

SpecFts == InitFts /\ [][NextFts]_vars

\* --------------------------------------------------- search and reader

\* SessionDatabase.log_semantic_search: one INSERT into semantic_searches.
log_semantic_search_Replaces(log, query, result_count, top_session_ids) ==
    << [query |-> query, result_count |-> result_count,
        top_session_ids |-> top_session_ids] >>

log_semantic_search(log, query, result_count, top_session_ids) ==
    Append(log, [query |-> query, result_count |-> result_count,
                 top_session_ids |-> top_session_ids])

\* HybridSearch.search(query, limit, fts_weight, semantic_weight): the
\* lexical pass, the semantic pass (the query is embedded, the chunk
\* embeddings are loaded from the Store if the cache holds None, and the
\* scores are computed from the cache), the fusion, the cut at 0.2, the
\* sort, the first `limit` results and the log row.  A weight of None is
\* the weight of the constructor.
Search(query, limit, fts_weight, semantic_weight, api_ok) ==
    /\ searched.n < MaxSearches
    /\ LET fts_w == IF fts_weight = None THEN DefaultFtsWeight ELSE fts_weight[1]
           sem_w == IF semantic_weight = None THEN DefaultSemanticWeight
                    ELSE semantic_weight[1]
           fts_scores ==
               _search_fts(search_messages_fts(messages, ranking.bm25_messages, query),
                           search_sessions_fts(sessions, ranking.bm25_sessions, query))
           query_embedding == embed_query(available, api_ok, query)
           loaded == IF query_embedding = None THEN cache
                     ELSE IF cache = None
                     THEN Some(get_all_chunk_embeddings(chunks))
                     ELSE cache
           semantic_scores ==
               IF query_embedding = None THEN NoScores
               ELSE _search_semantic(loaded[1], ranking.cos, limit * 2)
           combined == { r \in _combine_scores(fts_scores, semantic_scores,
                                               fts_w, sem_w) :
                           r.score >= MinCombined }
       IN  /\ cache' = loaded
           /\ \E sorted \in Sorted(combined) :
                 LET results == Take(sorted, limit)
                 IN  /\ searched' =
                          [n |-> searched.n + 1,
                           scored |-> IF query_embedding = None THEN {}
                                      ELSE loaded[1],
                           query |-> query, limit |-> limit,
                           fts_weight |-> fts_w, semantic_weight |-> sem_w,
                           embedded |-> query_embedding # None,
                           fts |-> fts_scores, semantic |-> semantic_scores,
                           results |-> results]
                     /\ semantic_searches' =
                          log_semantic_search(semantic_searches, query, Len(results),
                              Take([i \in 1..Len(results) |-> results[i].session_id],
                                   TopLogged))
    /\ UNCHANGED << clock, files, sessions, messages, chunks, nextChunkId,
                    summaries, pc, work, cur, stats, seen, available, readResult,
                    metadata, lastRun, ranking, chunked, project_stats, embedder, parse_call, second, semantic_call, call, summary_cache, database, metadata_cache, fts >>

\* A reader (the TUI thread) calls get_session, get_session_messages and
\* get_session_chunks for sid; here it gets all three from one Store state.
ReadSession(sid) ==
    /\ readResult' = Some([sid |-> sid, view |-> View(sid)])
    /\ UNCHANGED << clock, files, sessions, messages, chunks, nextChunkId,
                    summaries, pc, work, cur, stats, seen, available, cache,
                    searched, metadata, lastRun, ranking, semantic_searches,
                    chunked, project_stats, embedder, parse_call, second, semantic_call, call, summary_cache, database, metadata_cache, fts >>

\* The corpora of the search checks: none, or three top-level sessions, "a"
\* and "d" OpenCode, "b" OpenCode or Claude Code.  The query "ok" matches the
\* messages of an OpenCode session only, "hello" matches every session's
\* preview.
FusionCorpora ==
    { F \in [FusionIds -> { File("oc", 1, Null, "pa"), File("cc", 1, Null, "pa") }] :
        F["a"].kind = "oc" /\ F["d"].kind = "oc" }
    \cup { << >> }

\* The rankings of the search checks: the message rows of "a" score twice
\* those of "b" and "d", the session rows score alike, below or above the
\* message rows; the cosines are 0.2, 0.5 or 0.8.
FusionRankings ==
    { r \in [bm25_messages : [FusionIds -> {0 - 5, 0 - 10}],
             bm25_sessions : { [sid \in FusionIds |-> 0 - 5],
                               [sid \in FusionIds |-> 0 - 15] },
             cos : [FusionIds -> {240, 600, 960}]] :
        /\ r.bm25_messages = ("a" :> 0 - 10 @@ "b" :> 0 - 5 @@ "d" :> 0 - 5)
        /\ r.cos["a"] # 600 /\ r.cos["b"] # 240 /\ r.cos["d"] # 600 }

\* The Store that indexing the sessions of F in the given order leaves, the
\* embedder available: _index_session's statements, one session after the
\* other.
RECURSIVE IndexedStore(_, _)
IndexedStore(F, order) ==
    IF order = << >>
    THEN [sessions |-> << >>, messages |-> << >>, chunks |-> {}, next |-> 1]
    ELSE LET st == IndexedStore(F, SubSeq(order, 1, Len(order) - 1))
             sid == order[Len(order)]
             session == parse_session(sid, F[sid])
             msgs == IndexerMessages(session, Lines(F[sid].kind, sid))
             S1 == upsert_session(st.sessions,
                       SessionRow(st.sessions, session, msgs,
                                  generate_tags(session, msgs),
                                  _get_session_mtime(F[sid]), 1)).sessions
             M1 == upsert_messages(delete_messages_for_session(st.messages, sid),
                                   S1, MessageRows(sid, msgs)).messages
             C1 == upsert_chunks(delete_chunks_for_session(st.chunks, sid), st.next,
                                 S1, embed_chunks(TRUE, chunk_session(session, msgs)))
         IN  [sessions |-> S1, messages |-> M1, chunks |-> C1.chunks,
              next |-> C1.next]

\* A process that opens a Store in which a corpus was indexed with
\* embeddings; its own embedder may be available or not.
InitFusion ==
    /\ clock = 1
    /\ files \in FusionCorpora
    /\ LET st == IndexedStore(files, IF DOMAIN files = {} THEN << >>
                                     ELSE << "a", "b", "d" >>)
       IN  /\ sessions = st.sessions
           /\ messages = st.messages
           /\ chunks = st.chunks
           /\ nextChunkId = st.next
    /\ summaries = << >>
    /\ pc = "idle"
    /\ work = << >>
    /\ cur = NoCur
    /\ stats = NoStats
    /\ seen = << >>
    /\ available \in BOOLEAN
    /\ cache = None
    /\ searched = NoSearch
    /\ readResult = None
    /\ metadata = << >>
    /\ lastRun = None
    /\ ranking \in IF DOMAIN files = {} THEN {DefaultRanking} ELSE FusionRankings
    /\ semantic_searches = << >>
    /\ project_stats = << >>
    /\ embedder = UnusedEmbedder
    /\ parse_call = NoParsed
    /\ second = NoSecond
    /\ semantic_call = NoSemantic
    /\ call = NoCall
    /\ summary_cache = NoSummaryCache
    /\ database = NoDatabase
    /\ metadata_cache = NoMetadataCache
    /\ fts = NoFts
    /\ chunked = NoChunked

\* The indexer thread: one run at a time, statement by statement.
Indexer ==
    \/ IncrementalUpdate
    \/ FullReindex
    \/ BeginIndexSession
    \/ DeleteMessages
    \/ DeleteChunks
    \/ UpsertMessages
    \/ UpsertChunks
    \/ FinishRun

Next ==
    \/ Indexer
    \/ \E sid \in SessionIds : \E f \in StoreFiles(sid, clock) : WriteFile(sid, f)
    \/ \E sid \in SessionIds : RemoveFile(sid)
    \/ \E sid \in SessionIds : DeleteSession(sid)
    \/ \E sid \in SessionIds : UpsertSummary(sid, "summary one")

Spec == Init /\ [][Next]_vars

\* Summaries next to the indexer: one session over time, summarised, deleted.
NextSummary ==
    \/ Indexer
    \/ Tick
    \/ \E f \in StoreFiles("p", clock) : WriteFile("p", f)
    \/ \E text \in SummaryTexts : UpsertSummary("p", text)
    \/ DeleteSession("p")

SpecSummary == Init /\ [][NextSummary]_vars

\* full_reindex called again and again in one process, over a fixed corpus.
NextTwice ==
    \/ FullReindex
    \/ BeginIndexSession
    \/ DeleteMessages
    \/ DeleteChunks
    \/ UpsertMessages
    \/ UpsertChunks
    \/ FullReindexReturns
    \/ Tick

SpecTwice == InitTwice /\ [][NextTwice]_vars

\* One session indexed, rewritten, re-indexed and deleted over time.
NextChunks ==
    \/ Indexer
    \/ Tick
    \/ \E f \in ChunkFiles("p", clock) : WriteFile("p", f)
    \/ DeleteSession("p")

SpecChunks == Init /\ [][NextChunks]_vars

\* Metadata-only runs next to full and incremental ones, with an embedder.
NextMetadata ==
    \/ Indexer
    \/ FullReindexMetadataOnly
    \/ IndexSessionMetadataOnly
    \/ Tick
    \/ \E f \in StoreFiles("p", clock) : WriteFile("p", f)

SpecMetadata == InitEmbedding /\ [][NextMetadata]_vars

\* The indexer of a process that found a metadata cache file.
NextCache ==
    \/ Indexer
    \/ Tick
    \/ \E f \in FamilyFiles("p", clock) : WriteFile("p", f)

SpecCache == InitCache /\ [][NextCache]_vars

\* The embedder on its own, called by the indexer, the search and the
\* back-fill command.
NextCredentials ==
    \/ \E texts \in EmbedderTexts, api_ok \in BOOLEAN : EmbedTexts(texts, api_ok)
    \/ \E query \in {"", "hello"}, api_ok \in BOOLEAN : EmbedQuery(query, api_ok)
    \/ \E chks \in EmbedderChunks, api_ok \in BOOLEAN : EmbedChunks(chks, api_ok)

SpecCredentials == InitCredentials /\ [][NextCredentials]_vars

\* An indexer without the key, and the back-fill command, which is run
\* with the key again and again.
NextBackfill ==
    \/ Indexer
    \/ \E f \in ChunkFiles("p", clock) : WriteFile("p", f)
    \/ \E avail \in BOOLEAN : GenerateEmbeddings(avail)

SpecBackfill ==
    Init /\ [][NextBackfill]_vars /\ WF_vars(GenerateEmbeddings(TRUE))

\* The startup sync, incremental_update(max_age_hours), next to the runs
\* without a cutoff.
NextMaxAge ==
    \/ Indexer
    \/ \E max_age \in MaxAges : IncrementalUpdateMaxAge(max_age)
    \/ Tick
    \/ \E sid \in SessionIds : \E f \in MaxAgeFiles(sid, clock) : WriteFile(sid, f)

SpecMaxAge == Init /\ [][NextMaxAge]_vars

\* The query parser on its own.
NextParser == ParseSearchQuery

SpecParser == InitParser /\ [][NextParser]_vars

\* The application's two indexing workers over one session: the startup
\* sync or a first re-index, and a re-index the user asks for meanwhile.
NextWorkers ==
    \/ IncrementalUpdate
    \/ BeginIndexSession
    \/ DeleteMessages
    \/ DeleteChunks
    \/ UpsertMessages
    \/ UpsertChunks
    \/ FinishRun
    \/ ActionReindex
    \/ SecondBeginIndexSession
    \/ SecondDeleteMessages
    \/ SecondDeleteChunks
    \/ SecondUpsertMessages
    \/ SecondUpsertChunks
    \/ SecondFinishRun
    \/ Tick
    \/ \E f \in ChunkFiles("p", clock) : WriteFile("p", f)

SpecWorkers == Init /\ [][NextWorkers]_vars

\* The chunker on its own.
NextChunker == CreateTurnChunks

SpecChunker == InitChunker /\ [][NextChunker]_vars

\* Change detection: one session, the clock, rewrites.
NextChange ==
    \/ Indexer
    \/ Tick
    \/ \E f \in ChangeFiles("p", clock) : WriteFile("p", f)

SpecChange == Init /\ [][NextChange]_vars

\* Parent and child sessions.
NextFamily ==
    \/ Indexer
    \/ \E sid \in SessionIds : \E f \in FamilyFiles(sid, clock) : WriteFile(sid, f)

SpecFamily == Init /\ [][NextFamily]_vars

\* A reader next to the indexer thread.
NextReader ==
    \/ Indexer
    \/ \E f \in StoreFiles("p", clock) : WriteFile("p", f)
    \/ ReadSession("p")

SpecReader == Init /\ [][NextReader]_vars

\* ------------------------------------------- the embedding cache, stepwise

\* HybridSearch._search_semantic, one step for each read of
\* self._chunk_embeddings_cache; no lock is taken around them.
\* The call embeds the query and returns {} when there is no embedding.
SemanticBegin(query, limit, api_ok) ==
    /\ semantic_call.pc = "idle"
    /\ semantic_call' =
         IF embed_query(available, api_ok, query) = None
         THEN [pc |-> "returned", loaded |-> None, result |-> Some(NoScores)]
         ELSE [pc |-> "null_check", loaded |-> None, result |-> Some(limit)]
    /\ UNCHANGED << clock, files, sessions, messages, chunks, nextChunkId,
                    summaries, pc, work, cur, stats, seen, available, cache,
                    searched, readResult, metadata, lastRun, ranking,
                    semantic_searches, chunked, project_stats, embedder,
                    parse_call, second, call, summary_cache, database, metadata_cache, fts >>

\* "if self._chunk_embeddings_cache is None: self._chunk_embeddings_cache =
\* self._db.get_all_chunk_embeddings()"
SemanticLoad ==
    /\ semantic_call.pc = "null_check"
    /\ cache' = IF cache = None THEN Some(get_all_chunk_embeddings(chunks))
                ELSE cache
    /\ semantic_call' = [semantic_call EXCEPT !.pc = "empty_check",
                                              !.loaded = cache']
    /\ UNCHANGED << clock, files, sessions, messages, chunks, nextChunkId,
                    summaries, pc, work, cur, stats, seen, available,
                    searched, readResult, metadata, lastRun, ranking,
                    semantic_searches, chunked, project_stats, embedder,
                    parse_call, second, call, summary_cache, database, metadata_cache, fts >>

\* "if not self._chunk_embeddings_cache: return {}": None and the empty list
\* are both falsy.
SemanticEmptyCheck ==
    /\ semantic_call.pc = "empty_check"
    /\ semantic_call' =
         IF cache = None \/ cache = Some({})
         THEN [semantic_call EXCEPT !.pc = "returned", !.result = Some(NoScores)]
         ELSE [semantic_call EXCEPT !.pc = "iterate"]
    /\ UNCHANGED << clock, files, sessions, messages, chunks, nextChunkId,
                    summaries, pc, work, cur, stats, seen, available, cache,
                    searched, readResult, metadata, lastRun, ranking,
                    semantic_searches, chunked, project_stats, embedder,
                    parse_call, second, call, summary_cache, database, metadata_cache, fts >>

\* "for session_id, _chunk_id, embedding_blob in
\* self._chunk_embeddings_cache:" and the rest of the method: the attribute
\* is read once more; iterating None raises TypeError, a list is scored.
SemanticIterate ==
    /\ semantic_call.pc = "iterate"
    /\ semantic_call' =
         IF cache = None
         THEN [semantic_call EXCEPT !.pc = "raised", !.result = None]
         ELSE [semantic_call EXCEPT
                 !.pc = "returned",
                 !.result = Some(_search_semantic(cache[1], ranking.cos,
                                                  semantic_call.result[1]))]
    /\ UNCHANGED << clock, files, sessions, messages, chunks, nextChunkId,
                    summaries, pc, work, cur, stats, seen, available, cache,
                    searched, readResult, metadata, lastRun, ranking,
                    semantic_searches, chunked, project_stats, embedder,
                    parse_call, second, call, summary_cache, database, metadata_cache, fts >>

\* HybridSearch.invalidate_cache, called from another thread
InvalidateCache ==
    /\ cache' = None
    /\ UNCHANGED << clock, files, sessions, messages, chunks, nextChunkId,
                    summaries, pc, work, cur, stats, seen, available,
                    searched, readResult, metadata, lastRun, ranking,
                    semantic_searches, chunked, project_stats, embedder,
                    parse_call, second, semantic_call, call, summary_cache, database, metadata_cache, fts >>

\* The search thread's next call
SemanticCalls ==
    \/ \E api_ok \in BOOLEAN : SemanticBegin("hello", 100, api_ok)
    \/ SemanticLoad
    \/ SemanticEmptyCheck
    \/ SemanticIterate

\* The indexer fills the Store while the search thread runs _search_semantic
\* and another thread invalidates the cache.
NextInvalidate ==
    \/ Indexer
    \/ \E f \in StoreFiles("p", clock) : WriteFile("p", f)
    \/ SemanticCalls
    \/ InvalidateCache

SpecInvalidate == InitEmbedding /\ [][NextInvalidate]_vars

\* The application's HybridSearch next to its indexer, embedder available.
NextSearch ==
    \/ Indexer
    \/ \E f \in StoreFiles("p", clock) : WriteFile("p", f)
    \/ Search("hello", 50, None, None, TRUE)

SpecSearch == InitEmbedding /\ [][NextSearch]_vars

\* Searches in a Store that holds an indexed corpus: with the default limit
\* and weights, with a limit of 2, with weights of 0.0, and with an
\* embedding API that does not answer.
NextFusion ==
    \/ \E query \in {"hello", "ok"} : Search(query, 50, None, None, TRUE)
    \/ Search("ok", 2, None, None, TRUE)
    \/ Search("hello", 50, Some(0), Some(0), TRUE)
    \/ Search("ok", 50, None, None, FALSE)

SpecFusion == InitFusion /\ [][NextFusion]_vars

\* ------------------------------------------------------ Store properties

\* The step on which an _index_session call returns its counts.
IndexCompleted ==
    /\ pc = "upsert_chunks"
    /\ pc' = "loop"
    /\ stats'.sessions_indexed = stats.sessions_indexed + 1

\* The step on which an _index_session call ends in its except branch.
IndexFailed ==
    \/ pc = "upsert_messages" /\ pc' = "loop"
    \/ /\ pc = "upsert_chunks"
       /\ pc' = "loop"
       /\ stats'.sessions_indexed = stats.sessions_indexed

\* C1: if a step of _index_session fails, the Store holds for that session
\* exactly the session row, messages and chunks it held before the call.
C1_FailedReindexChangesNothing ==
    [][IndexFailed => ViewOf(sessions', messages', chunks', cur.sid) = cur.pre]_vars

\* C6: every non-null parent_id names a session row of the Store, and a
\* child indexed while its reported parent has no row is stored with
\* parent_id null.
ParentsExist(S) ==
    \A sid \in DOMAIN S :
        S[sid].parent_id # Null => S[sid].parent_id \in DOMAIN S

C6_ParentIdNeverDangles ==
    [][/\ ParentsExist(sessions')
       /\ \A sid \in SessionIds :
            (/\ pc = "loop" /\ pc' = "delete_messages" /\ cur'.sid = sid
             /\ Truthy(files[sid].parent)
             /\ files[sid].parent \notin DOMAIN sessions)
            => sessions'[sid].parent_id = Null]_vars

\* A child row linked to its parent's row.
C6_LinkedChild ==
    /\ "c" \in DOMAIN sessions
    /\ sessions["c"].parent_id = "p"
    /\ "p" \in DOMAIN sessions

\* C7: once a session is indexed, the sequence values of its message rows
\* are pairwise distinct and are exactly 0..N-1 for its message_count N.
SequencesDense(S, M, sid) ==
    LET rows == get_session_messages(M, sid)
    IN  /\ Len(rows) = S[sid].message_count
        /\ \A i \in 1..Len(rows) : rows[i].sequence = i - 1

C7_SequencesDense ==
    [][IndexCompleted => SequencesDense(sessions', messages', cur.sid)]_vars

\* C8: once a session is indexed, get_session_messages returns the messages
\* the provider yields for it: as many, in the same order, with the same
\* role and content (here for message lists whose ids are distinct).
RoleContent(msgs) ==
    [i \in 1..Len(msgs) |-> << msgs[i].role, msgs[i].content >>]

DistinctIds(rows) ==
    \A i, j \in 1..Len(rows) : i # j => rows[i].id # rows[j].id

C8_StoredMessagesAreProviderMessages ==
    [][(IndexCompleted /\ DistinctIds(CurMessageRows))
        => RoleContent(get_session_messages(messages', cur.sid))
           = RoleContent(ProviderMessages(cur.file.kind, cur.sid))]_vars

\* C9: when a run completes, an indexed session whose source file was gone
\* when the run started (and still is) has no session, message, chunk or
\* summary row.
HasRows(S, M, C, U, sid) ==
    \/ sid \in DOMAIN S
    \/ \E k \in DOMAIN M : M[k].session_id = sid
    \/ \E c \in C : c.session_id = sid
    \/ sid \in DOMAIN U

C9_VanishedSessionsAreRemoved ==
    [][(pc = "loop" /\ pc' = "idle")
        => \A sid \in (stats.gone \cap DOMAIN seen) \ DOMAIN files' :
              ~HasRows(sessions', messages', chunks', summaries', sid)]_vars

\* C11: no step of an indexing run changes a Summary row; the row of a
\* session changes only by upsert_summary for it or by its deletion.
C11_ReindexKeepsSummary ==
    [][/\ Indexer => summaries' = summaries
       /\ \A sid \in SessionIds :
            get_session(summaries', sid) # get_session(summaries, sid)
            => \/ \E text \in SummaryTexts : UpsertSummary(sid, text)
               \/ DeleteSession(sid)]_vars

\* A session that has a summary is being re-indexed: its new session row is
\* written, its old messages and chunks are deleted, the new ones follow.
C11_ReindexedWithSummary ==
    /\ pc = "upsert_chunks"
    /\ cur.pre.session # None
    /\ cur.sid \in DOMAIN summaries
    /\ sessions[cur.sid].indexed_at >= summaries[cur.sid].created_at

\* The step on which an _index_session call ends: with its counts, or in
\* its except branch (a Store write raised).
ResultReturned ==
    /\ pc = "upsert_chunks"
    /\ upsert_chunks(chunks, nextChunkId, sessions, CurChunks).ok
    /\ pc' = "loop"

ExceptionCaught ==
    \/ /\ pc = "upsert_messages"
       /\ ~upsert_messages(messages, sessions, CurMessageRows).ok
       /\ pc' = "loop"
    \/ /\ pc = "upsert_chunks"
       /\ ~upsert_chunks(chunks, nextChunkId, sessions, CurChunks).ok
       /\ pc' = "loop"

\* The step on which a run returns its stats.
RunReturns == pc = "loop" /\ pc' = "idle"

\* C12: a session whose indexing fails does not stop the run: the paths
\* still to visit stay, the failure counts nothing, a completed call counts
\* one, and the stats a run returns say how many of the marked sessions
\* completed, every marked session having been visited.
C12_FailureSkipsOneSession ==
    [][/\ ExceptionCaught
          => /\ work' = work
             /\ stats'.sessions_indexed = stats.sessions_indexed
       /\ ResultReturned
          => stats'.sessions_indexed = stats.sessions_indexed + 1
       /\ RunReturns
          => /\ { o.sid : o \in Range(stats.outcomes) } = stats.marked
             /\ stats.sessions_indexed
                  = Cardinality({ i \in DOMAIN stats.outcomes :
                                    stats.outcomes[i].outcome = "returned" })]_vars

\* A run in which the indexing of one session failed and the session
\* visited after it was indexed and counted.
C12_SiblingIndexedAfterFailure ==
    /\ pc = "loop"
    /\ stats.sessions_indexed = 1
    /\ \E i, j \in DOMAIN stats.outcomes :
          /\ i < j
          /\ stats.outcomes[i].outcome = "raised"
          /\ stats.outcomes[j].outcome = "returned"

\* C13: a full_reindex that follows a full_reindex over the same unchanged
\* corpus returns the same sessions_indexed, messages_indexed and
\* chunks_created and leaves the same numbers of session, message and chunk
\* rows and the same auto_tags list for every session.
C13_SecondFullReindexIsIdentical ==
    [][(FullReindexReturns /\ lastRun # None) => lastRun' = lastRun]_vars

\* ------------------------------------------------- foreign-key properties

\* C21: in every state of the Store every message row and every chunk row
\* names a session row that exists, and every chunk row with a message_id
\* names a message row that exists.
C21_RowsReferenceExistingRows ==
    /\ \A k \in DOMAIN messages : messages[k].session_id \in DOMAIN sessions
    /\ \A c \in chunks : c.session_id \in DOMAIN sessions
    /\ \A c \in chunks : c.message_id # Null => c.message_id \in DOMAIN messages

\* The part of C21 that the schema declares: the two session_id columns.
C21_DeclaredForeignKeysHold ==
    /\ \A k \in DOMAIN messages : messages[k].session_id \in DOMAIN sessions
    /\ \A c \in chunks : c.session_id \in DOMAIN sessions

\* C22: delete_session(id) removes the session row and every message,
\* chunk and summary row owned by it, sets parent_id to null on every session
\* whose parent_id was id, and leaves every other session's row, messages,
\* chunks and summary as they were.
C22_DeleteSessionCascades ==
    [][\A id \in SessionIds :
        DeleteSession(id) =>
            /\ DOMAIN sessions' = DOMAIN sessions \ {id}
            /\ \A s \in DOMAIN sessions' :
                 sessions'[s] = IF sessions[s].parent_id = id
                                THEN [sessions[s] EXCEPT !.parent_id = Null]
                                ELSE sessions[s]
            /\ DOMAIN messages' =
                 { k \in DOMAIN messages : messages[k].session_id # id }
            /\ \A k \in DOMAIN messages' : messages'[k] = messages[k]
            /\ chunks' = { c \in chunks : c.session_id # id }
            /\ DOMAIN summaries' = DOMAIN summaries \ {id}
            /\ \A s \in DOMAIN summaries' : summaries'[s] = summaries[s]]_vars

\* The parent's row, messages and summary are gone while its transcript is
\* still on disk; the child's row is unlinked and the child's messages,
\* chunks and summary are in the Store.
C22_ParentDeletedChildKept ==
    /\ "p" \in DOMAIN files
    /\ "p" \notin DOMAIN sessions
    /\ "p" \notin DOMAIN summaries
    /\ \A k \in DOMAIN messages : messages[k].session_id # "p"
    /\ "c" \in DOMAIN sessions
    /\ "c" \in DOMAIN files
    /\ Truthy(files["c"].parent)
    /\ sessions["c"].parent_id = Null
    /\ "c" \in DOMAIN summaries
    /\ \E k \in DOMAIN messages : messages[k].session_id = "c"
    /\ \E c \in chunks : c.session_id = "c"

\* ------------------------------------------------ metadata-only properties

\* C23: metadata-only indexing of a session upserts its session row and
\* leaves the message rows, the chunk rows with their embeddings and the
\* session's auto_tags as they were, whether or not the session was indexed
\* before.
C23_MetadataOnlyKeepsRowsAndTags ==
    [][(IndexSessionMetadataOnly /\ Head(work) \in DOMAIN files) =>
        LET sid == Head(work)
        IN  /\ sid \in DOMAIN sessions'
            /\ messages' = messages
            /\ chunks' = chunks
            /\ sid \in DOMAIN sessions =>
                 sessions'[sid].auto_tags = sessions[sid].auto_tags]_vars

\* The part of C23 about message and chunk rows.
C23_MetadataOnlyKeepsRows ==
    [][(IndexSessionMetadataOnly /\ Head(work) \in DOMAIN files) =>
        LET sid == Head(work)
        IN  /\ sid \in DOMAIN sessions'
            /\ messages' = messages
            /\ chunks' = chunks]_vars

\* ------------------------------------------------------ is_child properties

RECURSIVE SumMessageCount(_, _)
SumMessageCount(S, ids) ==
    IF ids = {} THEN 0
    ELSE LET sid == CHOOSE x \in ids : TRUE
         IN  S[sid].message_count + SumMessageCount(S, ids \ {sid})

SessionsOfProject(S, path) == { sid \in DOMAIN S : S[sid].project_path = path }

RunCompletes == pc = "loop" /\ pc' = "idle"

\* C25: when full_reindex or incremental_update completes, the
\* project_stats row of every project touched by the run equals the counters
\* derived from the Store (total_sessions the number of session rows of the
\* project, parent_sessions + child_sessions = total_sessions, total_messages
\* the sum of their message_count), and the rows of untouched projects are
\* unchanged.
C25_ProjectStatsMatchStore ==
    [][RunCompletes =>
        /\ \A path \in DOMAIN stats.projects :
             /\ path \in DOMAIN project_stats'
             /\ project_stats'[path].total_sessions =
                  Cardinality(SessionsOfProject(sessions', path))
             /\ project_stats'[path].parent_sessions
                  + project_stats'[path].child_sessions
                  = project_stats'[path].total_sessions
             /\ project_stats'[path].total_messages =
                  SumMessageCount(sessions', SessionsOfProject(sessions', path))
        /\ \A path \in DOMAIN project_stats \ DOMAIN stats.projects :
             /\ path \in DOMAIN project_stats'
             /\ project_stats'[path] = project_stats[path]]_vars

\* The parts of C25 that hold: the row of a touched project counts the
\* sessions the run indexed, parents and children add up, and untouched rows
\* stay.
C25_ProjectStatsCountTheRun ==
    [][RunCompletes =>
        /\ \A path \in DOMAIN stats.projects :
             /\ path \in DOMAIN project_stats'
             /\ project_stats'[path].total_sessions =
                  Cardinality({ i \in DOMAIN stats.outcomes :
                      /\ stats.outcomes[i].outcome = "returned"
                      /\ \E j \in DOMAIN stats.projects[path].sessions :
                           stats.projects[path].sessions[j].id
                             = stats.outcomes[i].sid })
             /\ project_stats'[path].parent_sessions
                  + project_stats'[path].child_sessions
                  = project_stats'[path].total_sessions
        /\ \A path \in DOMAIN project_stats \ DOMAIN stats.projects :
             /\ path \in DOMAIN project_stats'
             /\ project_stats'[path] = project_stats[path]]_vars

\* ------------------------------------------------------ embedder properties

\* C26: without credentials (OPENAI_API_KEY unset or empty) the embedder is
\* not available, embed_texts returns a list of nulls as long as its input,
\* embed_query returns null, embed_chunks returns the chunks it was given
\* unchanged, and no remote call is made.
C26_NoCredentialsNoEmbeddings ==
    (embedder.env # << >> /\ embedder.env[1].api_key \in {Null, ""}) =>
        /\ ~available
        /\ embedder.calls = 0
        /\ embedder.call # << >> =>
             LET op == embedder.call[1].op
                 arg == embedder.call[1].arg
                 result == embedder.result[1]
             IN  /\ op = "embed_texts" =>
                       /\ Len(result) = Len(arg)
                       /\ \A i \in 1..Len(result) : result[i] = None
                 /\ op = "embed_query" => result = None
                 /\ op = "embed_chunks" => result = arg

\* embed_chunks returned for two chunks, one of them with an embedding, in a
\* process with the package installed and the key unset.
C26_ChunksReturnedWithoutKey ==
    /\ embedder.env # << >>
    /\ embedder.env[1].has_openai
    /\ embedder.env[1].api_key = Null
    /\ embedder.call # << >>
    /\ embedder.call[1].op = "embed_chunks"
    /\ Len(embedder.call[1].arg) = 2

\* ------------------------------------------------------ back-fill properties

\* C27: a chunk stored with a null embedding gets an embedding once the
\* embedder is available and cmd_generate_embeddings runs: from a Store at
\* rest that holds a chunk with a null embedding, a state is reached in
\* which no chunk has a null embedding.
C27_NullEmbeddingsAreBackfilled ==
    (pc = "idle" /\ \E c \in chunks : c.embedding = None)
        ~> (\A c \in chunks : c.embedding # None)

\* ------------------------------------------------------ age-cutoff properties

ChangedSinceIndexed(sid) ==
    /\ sid \in DOMAIN files
    /\ sid \in DOMAIN sessions
    /\ sessions[sid].file_mtime # 0
    /\ sessions[sid].indexed_at # 0
    /\ _get_session_mtime(files[sid]) > sessions[sid].indexed_at

\* C28: incremental_update with max_age_hours set marks for re-indexing
\* every indexed session whose source changed (mtime > indexed_at), of every
\* provider and of any age.
C28_CutoffKeepsChangedSessions ==
    [][\A max_age \in MaxAges :
        IncrementalUpdateMaxAge(max_age) =>
            \A sid \in SessionIds :
                ChangedSinceIndexed(sid) => sid \in stats'.marked]_vars

\* The part of C28 that holds: the changed sessions of the providers with
\* fast discovery are marked whatever the cutoff.
C28_CutoffKeepsChangedFastSessions ==
    [][\A max_age \in MaxAges :
        IncrementalUpdateMaxAge(max_age) =>
            \A sid \in SessionIds :
                (/\ ChangedSinceIndexed(sid)
                 /\ fast_discovery(HarnessOf(files[sid].kind)))
                    => sid \in stats'.marked]_vars

\* -------------------------------------------------- query-parsing properties

\* A modifier is a word, a colon and the blank-free text after it; within a
\* blank-free piece of the query the first such word opens the modifier,
\* which runs to the end of the piece.
PatternAt(q, s) ==
    /\ s + 2 <= Len(q)
    /\ IsWord(q[s])
    /\ q[s + 1] = ":"
    /\ q[s + 2] # " "

SamePiece(q, s, i) == \A k \in s..i : q[k] # " "

InModifier(q, i) == \E s \in 1..i : SamePiece(q, s, i) /\ PatternAt(q, s)

ModifierStarts(q) ==
    { s \in 1..Len(q) :
        /\ PatternAt(q, s)
        /\ \A t \in 1..(s - 1) : SamePiece(q, t, s) => ~PatternAt(q, t) }

PieceEnd(q, s) ==
    Max({ e \in s..Len(q) : SamePiece(q, s, e) })

RecognizedKeys == {"harness", "project", "before", "after"}

KeysPresent(q) == { Lower(q[s]) : s \in ModifierStarts(q) } \cap RecognizedKeys

LastValue(q, key) ==
    LET s == Max({ t \in ModifierStarts(q) : Lower(q[t]) = key })
    IN  SubSeq(q, s + 2, PieceEnd(q, s))

\* C29: parse_search_query(q) returns (clean, filters): clean is q without
\* the atoms of its modifiers, stripped of the blanks around it; filters
\* holds harness (lower-cased), project, before and after for exactly the
\* recognized keys that q has a modifier of; a query without modifiers
\* comes back as it is (stripped) with no filter.
C29_ParseSearchQuery ==
    parse_call.result # None =>
        LET q == parse_call.query
            clean == parse_call.result[1].clean
            filters == parse_call.result[1].filters
            kept == SelectSeq([i \in 1..Len(q) |-> << i, q[i] >>],
                              LAMBDA a : ~InModifier(q, a[1]))
        IN  /\ clean = Text(Strip([i \in 1..Len(kept) |-> kept[i][2]]))
            /\ DOMAIN filters = KeysPresent(q)
            /\ "harness" \in DOMAIN filters =>
                 filters["harness"] = Text(LowerAll(LastValue(q, "harness")))
            /\ "project" \in DOMAIN filters =>
                 filters["project"] = Text(LastValue(q, "project"))
            /\ "before" \in DOMAIN filters =>
                 filters["before"] = parse_date_value(Text(LastValue(q, "before")))
            /\ "after" \in DOMAIN filters =>
                 filters["after"] = parse_date_value(Text(LastValue(q, "after")))
            /\ ModifierStarts(q) = {} =>
                 /\ DOMAIN filters = {}
                 /\ clean = Text(Strip(q))
                 /\ (q[1] # " " /\ q[Len(q)] # " ") => clean = Text(q)

\* "Harness:Droid JWT" was parsed into the query "JWT" and the filter
\* harness = "droid".
C29_HarnessModifierParsed ==
    /\ parse_call.query = << "Harness", ":", "Droid", " ", "JWT" >>
    /\ parse_call.result # None
    /\ parse_call.result[1].clean = "JWT"
    /\ DOMAIN parse_call.result[1].filters = {"harness"}
    /\ parse_call.result[1].filters["harness"] = "droid"

\* ------------------------------------------------------- worker properties

WriteSteps == {"delete_messages", "delete_chunks", "upsert_messages", "upsert_chunks"}

\* C30: at most one indexing run writes to the Store at any time: the write
\* steps of the _index_session calls of two workers are never interleaved.
C30_OneWriterAtATime ==
    ~(pc \in WriteSteps /\ second.pc \in WriteSteps)

\* ------------------------------------------------------- chunk properties

C19_ReindexedWithToolChunk ==
    /\ pc = "idle"
    /\ { c.chunk_type : c \in { c \in chunks : c.session_id = "p" } }
         = {"summary", "turn", "tool_usage"}
    /\ \A c \in chunks : c.id > 2

\* The ids of the messages with string content, in order, and the ids of the
\* messages of a list of chunks, chunk after chunk.
RECURSIVE StringIds(_)
StringIds(msgs) ==
    IF msgs = << >> THEN << >>
    ELSE (IF IsStr(Head(msgs).content) THEN << Head(msgs).id >> ELSE << >>)
         \o StringIds(Tail(msgs))

RECURSIVE ChunkedIds(_)
ChunkedIds(chks) ==
    IF chks = << >> THEN << >>
    ELSE Head(chks).message_ids \o ChunkedIds(Tail(chks))

\* C20: create_turn_chunks never splits a message and packs greedily: the
\* messages with string content appear, whole and in their order, once each
\* in the chunks; a chunk's token_count is the sum of its messages'
\* estimates and is at most 400 unless the chunk is a single message; a
\* chunk ends only where the next message would take it past 400.
C20_TurnChunksPackWholeMessages ==
    chunked.chunks # None =>
        LET msgs == chunked.messages
            out == chunked.chunks[1]
            MsgOf(id) == msgs[CHOOSE i \in DOMAIN msgs : msgs[i].id = id]
        IN  /\ ChunkedIds(out) = StringIds(msgs)
            /\ \A g \in DOMAIN out :
                  /\ out[g].message_ids # << >>
                  /\ out[g].chunk_index = g
                  /\ out[g].content =
                       [k \in DOMAIN out[g].message_ids |->
                          << MsgOf(out[g].message_ids[k]).role,
                             MsgOf(out[g].message_ids[k]).content >>]
                  /\ out[g].token_count =
                       SumTokens([k \in DOMAIN out[g].message_ids |->
                                    MsgOf(out[g].message_ids[k])])
                  /\ out[g].token_count <= TARGET_TOKENS
                       \/ Len(out[g].message_ids) = 1
                  /\ g < Len(out) =>
                       out[g].token_count
                         + estimate_tokens(MsgOf(out[g + 1].message_ids[1]))
                       > TARGET_TOKENS

\* create_turn_chunks has returned a chunk of several messages and a chunk
\* of one message of more than 400 tokens.
C20_PackedAndOversizedChunk ==
    /\ chunked.chunks # None
    /\ \E g, h \in DOMAIN chunked.chunks[1] :
          /\ Len(chunked.chunks[1][g].message_ids) >= 2
          /\ chunked.chunks[1][h].token_count > TARGET_TOKENS

\* ------------------------------------------------------ search properties

\* A step in which HybridSearch.search returns.
SearchReturns == searched'.n = searched.n + 1

\* The ids of a result list, in rank order, and the rank of an id.
ResultIds(results) == [i \in 1..Len(results) |-> results[i].session_id]
RankOf(results, sid) == CHOOSE i \in 1..Len(results) : results[i].session_id = sid

\* C14: when the embedder is not available, or embed_query gives None, a
\* search returns (no exception), the semantic pass yields nothing and
\* loads nothing, and every returned result has semantic_score None and a
\* score of half the session's normalized lexical score.
C14_LexicalOnlyWhenNoQueryEmbedding ==
    [][(SearchReturns /\ (~available \/ ~searched'.embedded))
        => /\ ~searched'.embedded
           /\ searched'.semantic = NoScores
           /\ cache' = cache
           /\ \A i \in DOMAIN searched'.results :
                LET r == searched'.results[i]
                IN  /\ r.semantic_score = None
                    /\ r.session_id \in DOMAIN searched'.fts
                    /\ r.fts_score = Some(searched'.fts[r.session_id])
                    /\ 2 * r.score = searched'.fts[r.session_id]]_vars

\* A search without an embedder has returned two results with different
\* lexical scores.
C14_LexicalResultsWithoutEmbedder ==
    /\ searched.n > 0 /\ ~available
    /\ Len(searched.results) >= 2
    /\ \E i, j \in DOMAIN searched.results :
          searched.results[i].score # searched.results[j].score

\* C15: the results of a search are, one per session, the sessions of the
\* lexical or the semantic result set whose combined score is at least 0.2:
\* the weighted sum of the two normalized scores for a session in both, half
\* the normalized score for a session in one; in descending score; the first
\* `limit` of them.
C15_FusionOfTheTwoPasses ==
    [][SearchReturns =>
        LET s == searched'
            ids == DOMAIN s.fts \cup DOMAIN s.semantic
            res == s.results
            \* 2 * Scale times the combined score of a session
            Combined(sid) ==
                IF sid \in DOMAIN s.fts /\ sid \in DOMAIN s.semantic
                THEN 2 * (s.fts_weight * s.fts[sid]
                          + s.semantic_weight * s.semantic[sid])
                ELSE IF sid \in DOMAIN s.fts THEN Scale * s.fts[sid]
                ELSE Scale * s.semantic[sid]
            kept == { sid \in ids : Combined(sid) >= 2 * Scale * MinCombined }
            returned == { res[i].session_id : i \in DOMAIN res }
        IN  /\ returned \subseteq kept
            /\ \A i, j \in DOMAIN res : i # j => res[i].session_id # res[j].session_id
            /\ \A i \in DOMAIN res :
                  2 * Scale * res[i].score = Combined(res[i].session_id)
            /\ \A i, j \in DOMAIN res : i < j => res[i].score >= res[j].score
            /\ Len(res) = IF Cardinality(kept) < s.limit THEN Cardinality(kept)
                          ELSE s.limit
            /\ \A sid \in kept \ returned : \A i \in DOMAIN res :
                  Combined(sid) <= 2 * Scale * res[i].score]_vars

\* A search has returned a session of both passes ahead of a session of one
\* pass, and has left out a session (the limit, or a score under 0.2).
C15_FusedRankedAndCut ==
    /\ searched.n > 0
    /\ \E i, j \in DOMAIN searched.results :
          /\ i < j
          /\ searched.results[i].fts_score # None
          /\ searched.results[i].semantic_score # None
          /\ searched.results[j].semantic_score = None
    /\ Len(searched.results)
         < Cardinality(DOMAIN searched.fts \cup DOMAIN searched.semantic)

\* The dicts that a search for the query hands to _normalize_scores: the
\* lexical scores and the best cosines of the sessions.
RawScores(query) ==
    { FtsScores(search_messages_fts(messages, ranking.bm25_messages, query),
                search_sessions_fts(sessions, ranking.bm25_sessions, query)),
      Aggregated(get_all_chunk_embeddings(chunks), ranking.cos) }

\* C16: _normalize_scores of a non-empty dict has the same keys; all values
\* are 1.0 if all inputs are equal; otherwise the least input maps to 0.5,
\* the greatest to 1.0, every value is in [0.5, 1.0] and the order of the
\* inputs is kept; {a: 10, b: 5, d: 5} maps to {a: 1.0, b: 0.5, d: 0.5}.
C16_NormalizeScores ==
    \A query \in {"hello", "ok"} : \A raw \in RawScores(query) :
        LET norm == _normalize_scores(raw)
            values == { raw[k] : k \in DOMAIN raw }
        IN  DOMAIN raw # {} =>
              /\ DOMAIN norm = DOMAIN raw
              /\ Cardinality(values) = 1 => \A k \in DOMAIN raw : norm[k] = Scale
              /\ Cardinality(values) > 1 =>
                   /\ \A k \in DOMAIN raw : raw[k] = Min(values) => 2 * norm[k] = Scale
                   /\ \A k \in DOMAIN raw : raw[k] = Max(values) => norm[k] = Scale
                   /\ \A k \in DOMAIN raw : 2 * norm[k] >= Scale /\ norm[k] <= Scale
                   /\ \A k, j \in DOMAIN raw : raw[k] <= raw[j] => norm[k] <= norm[j]
              /\ raw = ("a" :> 10 @@ "b" :> 5 @@ "d" :> 5)
                   => norm = ("a" :> Scale @@ "b" :> Scale \div 2 @@ "d" :> Scale \div 2)

\* A search for "hello" found the lexical scores {a: 10, b: 5, d: 5} and
\* normalized them.
C16_TenFiveFiveNormalized ==
    /\ searched.n > 0 /\ searched.query = "hello"
    /\ ("a" :> 10 @@ "b" :> 5 @@ "d" :> 5) \in RawScores("hello")
    /\ searched.fts = ("a" :> Scale @@ "b" :> Scale \div 2 @@ "d" :> Scale \div 2)

\* C17: a search appends one row to semantic_searches, with the number of
\* results it returns and their first (at most 10) ids in rank order, and
\* leaves the rows before it as they are; nothing else changes the table;
\* a search in a Store without sessions returns [] and logs 0.
C17_OneLogRowPerSearch ==
    [][/\ SearchReturns =>
            /\ Len(semantic_searches') = Len(semantic_searches) + 1
            /\ SubSeq(semantic_searches', 1, Len(semantic_searches)) = semantic_searches
            /\ LET row == semantic_searches'[Len(semantic_searches')]
                   ids == ResultIds(searched'.results)
               IN  /\ row.query = searched'.query
                   /\ row.result_count = Len(searched'.results)
                   /\ Len(row.top_session_ids) <= TopLogged
                   /\ Len(row.top_session_ids) <= Len(ids)
                   /\ Len(row.top_session_ids) >= Min({TopLogged, Len(ids)})
                   /\ \A i \in DOMAIN row.top_session_ids :
                         row.top_session_ids[i] = ids[i]
            /\ DOMAIN sessions = {} =>
                  /\ searched'.results = << >>
                  /\ semantic_searches'[Len(semantic_searches')].result_count = 0
       /\ ~SearchReturns => semantic_searches' = semantic_searches]_vars

\* A second search has logged three ids in rank order after a first one
\* that logged another count.
C17_SecondRowLogged ==
    /\ Len(semantic_searches) = 2
    /\ semantic_searches[2].result_count = 3
    /\ Len(semantic_searches[2].top_session_ids) = 3
    /\ semantic_searches[1].result_count # 3
    /\ searched.results[1].score > searched.results[3].score

\* Sessions that the last search matched in one pass only.
LexicalOnly(s) == DOMAIN s.fts \ DOMAIN s.semantic
SemanticOnly(s) == DOMAIN s.semantic \ DOMAIN s.fts

\* C18 as stated: with the default weights a session A of the lexical pass
\* only and a session B of the semantic pass only are both returned, and B
\* is ranked above A whenever sem_norm(B) > (0.3 / 0.7) * lex_norm(A).
C18_SemanticOnlyOutranksByWeights ==
    [][(SearchReturns /\ searched'.fts_weight = DefaultFtsWeight
                      /\ searched'.semantic_weight = DefaultSemanticWeight)
        => \A A \in LexicalOnly(searched'), B \in SemanticOnly(searched') :
              LET res == searched'.results
              IN  /\ A \in Range(ResultIds(res)) /\ B \in Range(ResultIds(res))
                  /\ DefaultSemanticWeight * searched'.semantic[B]
                       > DefaultFtsWeight * searched'.fts[A]
                     => RankOf(res, B) < RankOf(res, A)]_vars

\* C18, amended: both are returned when the limit cuts nothing, and B is
\* ranked above A whenever sem_norm(B) > lex_norm(A) (each of the two scores
\* is halved, whatever the weights), below A whenever it is smaller.
C18_SemanticOnlyOutranksByScore ==
    [][(SearchReturns /\ searched'.fts_weight = DefaultFtsWeight
                      /\ searched'.semantic_weight = DefaultSemanticWeight)
        => \A A \in LexicalOnly(searched'), B \in SemanticOnly(searched') :
              LET res == searched'.results
                  ids == Range(ResultIds(res))
              IN  /\ Len(res) < searched'.limit => (A \in ids /\ B \in ids)
                  /\ (A \in ids /\ B \in ids) =>
                       /\ searched'.semantic[B] > searched'.fts[A]
                            => RankOf(res, B) < RankOf(res, A)
                       /\ searched'.semantic[B] < searched'.fts[A]
                            => RankOf(res, A) < RankOf(res, B)]_vars

\* A search with the default weights has returned a lexical-only session A
\* above a semantic-only session B with
\* (0.3 / 0.7) * lex_norm(A) < sem_norm(B) < lex_norm(A).
C18_LexicalOnlyAboveSemanticOnly ==
    /\ searched.n > 0 /\ searched.fts_weight = DefaultFtsWeight
    /\ searched.semantic_weight = DefaultSemanticWeight
    /\ \E A \in LexicalOnly(searched), B \in SemanticOnly(searched) :
          /\ A \in Range(ResultIds(searched.results))
          /\ B \in Range(ResultIds(searched.results))
          /\ RankOf(searched.results, A) < RankOf(searched.results, B)
          /\ DefaultSemanticWeight * searched.semantic[B]
               > DefaultFtsWeight * searched.fts[A]
          /\ searched.semantic[B] < searched.fts[A]

\* ---------------------------------------------- change-detection properties

\* The step on which incremental_update ends its scan.
IncrementalScanned ==
    pc = "idle" /\ pc' = "loop" /\ stats'.run = "incremental"

\* Every source file is the file its session's last completed index read,
\* and that session still has its row: nothing was added, removed or
\* modified since the Store state was produced.
CorpusUnchanged ==
    \A sid \in DOMAIN files :
        sid \in DOMAIN seen /\ seen[sid] = files[sid] /\ sid \in DOMAIN sessions

\* C4: an incremental_update over a corpus that did not change since the
\* sessions were indexed marks no session (so sessions_indexed stays 0).
C4_UnchangedCorpusMarksNothing ==
    [][(IncrementalScanned /\ CorpusUnchanged) => work' = << >>]_vars

\* The source file of sid changed content after its last completed index
\* read it, and carries an mtime that is not before that index's indexed_at.
ModifiedAfterIndexing(sid) ==
    /\ sid \in DOMAIN files \cap DOMAIN seen \cap DOMAIN sessions
    /\ files[sid].kind # seen[sid].kind
    /\ files[sid].mtime >= sessions[sid].indexed_at

\* C5: an incremental_update marks every indexed session whose source file
\* was modified after the session was indexed.
C5_ModifiedFileIsMarked ==
    [][IncrementalScanned
        => \A sid \in SessionIds :
              ModifiedAfterIndexing(sid) => sid \in Range(work')]_vars

\* --------------------------------------------------- parent and child

\* The time window of _get_related_children, in seconds.
TimeWindow(harness) == IF harness = "opencode" THEN 24 * 3600 ELSE 2 * 3600

Abs(n) == IF n < 0 THEN 0 - n ELSE n

\* AgentSessionsBrowser._get_related_children over the sessions loaded from
\* the Store: the child sessions of the parent's harness and project whose
\* modified time lies within the window of the parent's.
get_related_children(S, parent) ==
    IF parent \notin DOMAIN S \/ S[parent].timestamp_end = 0 THEN {}
    ELSE { c \in DOMAIN S :
             /\ S[c].is_child
             /\ S[c].harness = S[parent].harness
             /\ S[c].project_path = S[parent].project_path
             /\ S[c].timestamp_end # 0
             /\ Abs(S[c].timestamp_end - S[parent].timestamp_end)
                  < TimeWindow(S[parent].harness) }

\* The row of "c" before the running _index_session call touched it.
ChildRowBefore ==
    IF cur.sid = "c" THEN cur.pre.session
    ELSE get_session(sessions, "c")

\* "c" was indexed while "p" had no row (its row says is_child, with a null
\* parent_id), "p" was indexed afterwards, and the call that now completes
\* re-indexes one of the two.
ReindexAfterOrphaning ==
    /\ IndexCompleted
    /\ cur.pre.session # None
    /\ "p" \in DOMAIN sessions
    /\ ChildRowBefore # None
    /\ ChildRowBefore[1].is_child
    /\ ChildRowBefore[1].parent_id = Null
    /\ "c" \in DOMAIN files /\ files["c"].parent = "p"

\* C10: a child indexed before its parent is among the parent's related
\* children once either of them has been re-indexed.
C10_ReindexRestoresChild ==
    [][ReindexAfterOrphaning => "c" \in get_related_children(sessions', "p")]_vars

\* ------------------------------------------------- reader and search

\* What the Store holds for session sid once the statements that remain
\* of the running _index_session call have run.
ViewAfterCall(sid) ==
    LET M == IF pc \in {"delete_messages", "delete_chunks", "upsert_messages"}
             THEN upsert_messages(delete_messages_for_session(messages, sid),
                                  sessions, CurMessageRows)
             ELSE [ok |-> TRUE, messages |-> messages]
        C == IF M.ok
             THEN upsert_chunks(delete_chunks_for_session(chunks, sid),
                                nextChunkId, sessions, CurChunks).chunks
             ELSE delete_chunks_for_session(chunks, sid)
    IN  ViewOf(sessions, M.messages, C, sid)

\* C2: a read of session s made while s is being re-indexed returns the rows
\* of s from before the re-index or the rows the re-index leaves, nothing
\* in between.
C2_ReaderSeesPreOrPost ==
    [][\A sid \in SessionIds :
          (ReadSession(sid) /\ cur.sid = sid /\ cur.pre.session # None)
          => readResult'[1].view \in {cur.pre, ViewAfterCall(sid)}]_vars

\* C3: a search with the embedder available scores the chunk embeddings the
\* Store holds at that moment: no chunk write lies between the load of the
\* cache it reads and the search.
C3_SearchScoresCurrentEmbeddings ==
    [][(searched'.n = searched.n + 1 /\ available)
        => searched'.scored = get_all_chunk_embeddings(chunks)]_vars

\* ------------------------------------------------- embedding cache properties

\* C31: access to the embedding cache is mutually exclusive: a
\* _search_semantic call that found embeddings at its null check never
\* raises and returns the scores of the cache its null check left, whatever
\* invalidate_cache does meanwhile.
C31_SearchScoresTheLoadedCache ==
    /\ semantic_call.pc # "raised"
    /\ semantic_call.pc = "returned" /\ semantic_call.loaded # None
          /\ semantic_call.loaded # Some({})
       => semantic_call.result
            = Some(_search_semantic(semantic_call.loaded[1], ranking.cos, 100))

\* A call's null check found embeddings and the cache was reset before the
\* call ended.
C31_ResetDuringSearch ==
    /\ semantic_call.pc \in {"returned", "raised"}
    /\ semantic_call.loaded # None
    /\ semantic_call.loaded # Some({})
    /\ cache = None

\* ------------------------------------------------------ batching properties

\* The sum of len(text) // 4 over a list of texts: the estimated tokens of
\* a remote call.
RECURSIVE EstimatedTokens(_)
EstimatedTokens(texts) ==
    IF texts = << >> THEN 0
    ELSE IF Len(texts) = 1 THEN Chars(texts[1]) \div 4
    ELSE EstimatedTokens(SubSeq(texts, 1, Len(texts) \div 2))
         + EstimatedTokens(SubSeq(texts, Len(texts) \div 2 + 1, Len(texts)))

\* C32: with the embedder available, embed_chunks sends every chunk in
\* exactly one remote call, in input order; a call carries at most 100 items
\* and at most 250,000 estimated tokens unless it is a single chunk; the
\* chunks of a call that fails keep their null embedding, those of every
\* other call, later ones included, get theirs.
C32_BatchesCoverEachChunkOnce ==
    (available /\ embedder.call # << >> /\ embedder.call[1].op = "embed_chunks")
    => LET chks == embedder.call[1].arg
           sent == embedder.call[1].sent
           oks == embedder.call[1].oks
           value == embedder.result[1]
           first(j) == Len(Flatten(SubSeq(sent, 1, j - 1)))
       IN  /\ Flatten(sent) = [i \in 1..Len(chks) |-> chks[i].content]
           /\ \A j \in 1..Len(sent) :
                 /\ Len(sent[j]) \in 1..100
                 /\ EstimatedTokens(sent[j]) <= 250000 \/ Len(sent[j]) = 1
                 /\ \A n \in 1..Len(sent[j]) :
                       value[first(j) + n] =
                          IF oks[j]
                          THEN [chks[first(j) + n] EXCEPT
                                  !.embedding = << Truncated(sent[j][n]) >>]
                          ELSE chks[first(j) + n]
           /\ Len(value) = Len(chks)

\* 101 chunks went out in two calls of 100 and 1, the first failed and the
\* second answered.
C32_SecondCallAfterFailure ==
    /\ available
    /\ embedder.call # << >>
    /\ embedder.call[1].op = "embed_chunks"
    /\ Len(embedder.call[1].arg) = 101
    /\ Len(embedder.call[1].sent) = 2
    /\ Len(embedder.call[1].sent[1]) = 100
    /\ embedder.call[1].oks = << FALSE, TRUE >>
    /\ embedder.result[1][100].embedding = << >>
    /\ embedder.result[1][101].embedding # << >>

\* ------------------------------------------------------ progress properties

\* C33: a full_reindex run that has visited every path has called the
\* progress callback once for every enumerated session, with done = 1, 2,
\* ..., total in this order, the last call with done = total: also for the
\* sessions that did not parse or whose _index_session failed.
C33_ProgressOncePerSession ==
    (pc = "loop" /\ work = << >> /\ stats.run = "full")
    => /\ Len(stats.progress) = Cardinality(stats.marked)
       /\ \A k \in 1..Len(stats.progress) :
             /\ stats.progress[k].done = k
             /\ stats.progress[k].total = Cardinality(stats.marked)
             /\ stats.progress[k].sid = stats.outcomes[k].sid

\* A full run is over in which a session did not parse and another did.
C33_RunWithUnparsedSession ==
    /\ pc = "loop" /\ work = << >> /\ stats.run = "full"
    /\ \E k \in 1..Len(stats.outcomes) : stats.outcomes[k].outcome = "skipped"
    /\ \E k \in 1..Len(stats.outcomes) : stats.outcomes[k].outcome = "returned"

\* ------------------------------------------------------- tagger properties

\* The score (in halves) generate_tags gives a tag for these matches, and
\* the tags in the order of their first insertion.
TagScore(arg, tag) ==
    4 * Cardinality({ i \in DOMAIN arg.matches.tools : arg.matches.tools[i] = tag })
    + (IF tag \in arg.matches.activities THEN 3 ELSE 0)
    + 2 * Cardinality({ i \in DOMAIN arg.matches.techs : arg.matches.techs[i] = tag })
    + (IF arg.project_name # Null /\ tag = "project:pa" THEN 1 ELSE 0)
    + (IF tag = "harness:" \o Lower(arg.harness) THEN 1 ELSE 0)

Inserted(arg) ==
    arg.matches.tools
    \o SelectSeq(ACTIVITY_PATTERNS, LAMBDA t : t \in arg.matches.activities)
    \o arg.matches.techs
    \o (IF arg.project_name # Null THEN << "project:pa" >> ELSE << >>)
    \o << "harness:" \o Lower(arg.harness) >>

FirstInsertion(arg, tag) ==
    CHOOSE i \in DOMAIN Inserted(arg) :
        /\ Inserted(arg)[i] = tag
        /\ \A j \in 1..(i - 1) : Inserted(arg)[j] # tag

\* C34: generate_tags returns at most 15 tags, pairwise distinct, every one
\* a tag that scored, no tag left out scoring more than a returned one (nor
\* as much, inserted earlier), in the order of descending score, tags of
\* equal score in the order of their first insertion.
C34_TagsSortedDistinctAtMost15 ==
    (call.op = "generate_tags" /\ call.result # None)
    => LET tags == call.result[1]
           arg == call.arg
           all == Range(Inserted(arg))
           Before(s, t) ==
               \/ TagScore(arg, s) > TagScore(arg, t)
               \/ /\ TagScore(arg, s) = TagScore(arg, t)
                  /\ FirstInsertion(arg, s) < FirstInsertion(arg, t)
       IN  /\ Len(tags) = (IF Cardinality(all) < 15 THEN Cardinality(all) ELSE 15)
           /\ \A i \in DOMAIN tags : tags[i] \in all
           /\ \A i, j \in DOMAIN tags : i < j => Before(tags[i], tags[j])
           /\ \A t \in all \ Range(tags) :
                 \A i \in DOMAIN tags : Before(tags[i], t)

\* A call with more than 15 scored tags, two of equal score among those
\* returned.
C34_MoreThan15TagsWithTies ==
    /\ call.op = "generate_tags"
    /\ call.result # None
    /\ Cardinality(Range(Inserted(call.arg))) > 15
    /\ \E i \in 1..14 :
          TagScore(call.arg, call.result[1][i])
            = TagScore(call.arg, call.result[1][i + 1])

\* ------------------------------------------------------ preview properties

\* C36: for a first prompt of any length the first_prompt_preview is at most
\* 200 characters long, the ellipsis included.
C36_PreviewAtMost200 ==
    (call.op = "first_prompt_preview" /\ call.result # None
        /\ call.result[1] # None)
    => Len(call.result[1][1]) <= 200

\* ----------------------------------------------- summary cache properties

\* C37: the SummaryCache is thread-safe: concurrent first constructions
\* create one instance, and a get in any thread returns the summary of the
\* last set of its key, made in any thread, when the hashes agree, and null
\* when they differ or nothing was set.
C37_OneCacheForAllThreads ==
    /\ Cardinality(DOMAIN summary_cache.objects) <= 1
    /\ \A t \in DOMAIN summary_cache.threads :
          LET got == summary_cache.threads[t].got
          IN  (got # None /\ got[1].op = "get")
              => got[1].value =
                    IF got[1].session_id \in DOMAIN got[1].written
                       /\ got[1].written[got[1].session_id].hash
                            = got[1].content_hash
                    THEN got[1].written[got[1].session_id].summary
                    ELSE Null

\* Both threads have constructed their SummaryCache, one has set a summary
\* and the other has called get with the hash of that set.
C37_SetThenGetInOtherThread ==
    /\ DOMAIN summary_cache.threads = CacheThreads
    /\ \A t \in CacheThreads : summary_cache.threads[t].self # None
    /\ \E t \in CacheThreads :
          LET got == summary_cache.threads[t].got
          IN  /\ got # None
              /\ got[1].op = "get"
              /\ "p" \in DOMAIN got[1].written
              /\ got[1].written["p"].hash = got[1].content_hash

\* --------------------------------------------- Store singleton properties

\* C40: SessionDatabase is a process-wide singleton.  Whatever the threads
\* do, no two instances are created without a reset between them; a
\* construction returns the instance of the class as it is, with the path
\* it was created with, whatever db_path is passed; a reset leaves no
\* instance and no open connection on the one it ends, and the instance
\* created next is a new object.
C40_OneDatabasePerReset ==
    [][/\ \A i, j \in DOMAIN database'.objects :
             database'.objects[i].epoch = database'.objects[j].epoch => i = j
       /\ \A t \in DOMAIN database.threads :
             (database.threads[t].pc = "return" /\ database'.threads[t].pc = "idle")
             => /\ database'.threads[t].self = database.instance
                /\ database'.objects = database.objects
       /\ \A i \in DOMAIN database.objects :
             database'.objects[i]._db_path = database.objects[i]._db_path
       /\ database'.resets # database.resets
             => /\ database'.instance = None
                /\ database.instance # None
                      => database'.objects[database.instance[1]]._connection # "open"
       /\ \A i \in DOMAIN database'.objects \ DOMAIN database.objects :
             /\ database.instance = None
             /\ database'.instance = Some(i)
             /\ database'.objects[i]._connection = "none"]_vars

\* After a reset that closed a connection, a thread that asked for another
\* path holds a second instance while the other thread has constructed too.
C40_FreshInstanceAfterReset ==
    /\ database.resets > 0
    /\ \E i \in DOMAIN database.objects : database.objects[i]._connection = "closed"
    /\ \E t, u \in DOMAIN database.threads :
          /\ t # u
          /\ database.threads[t].self = database.instance
          /\ database.threads[u].self = database.instance
          /\ database.instance # None
          /\ database.objects[database.instance[1]].epoch > 0
          /\ database.threads[t].db_path = Some("other.db")
          /\ database.objects[database.instance[1]]._db_path = DEFAULT_DB_PATH

\* ------------------------------------------------------- the cut at 0.2

\* C39: in a search with the default weights every session of the union of
\* the normalized lexical and semantic results has a combined score of at
\* least 0.25, so the cut at 0.2 removes none: the results are the whole
\* union, or as many of it as the limit allows.
C39_DefaultWeightsPassTheCut ==
    (/\ searched.n > 0
     /\ searched.fts_weight = DefaultFtsWeight
     /\ searched.semantic_weight = DefaultSemanticWeight)
    => LET union == DOMAIN searched.fts \cup DOMAIN searched.semantic
           combined == _combine_scores(searched.fts, searched.semantic,
                                       searched.fts_weight,
                                       searched.semantic_weight)
       IN  /\ \A r \in combined : r.score >= Scale \div 4
           /\ \A r \in combined : r.score >= MinCombined
           /\ Len(searched.results)
                = (IF Cardinality(union) < searched.limit
                   THEN Cardinality(union) ELSE searched.limit)
           /\ Cardinality(union) <= searched.limit
                 => { searched.results[i].session_id :
                        i \in DOMAIN searched.results } = union

\* A search with the default weights returned a session that matched in one
\* pass only with the lowest normalized score: its combined score is 0.25.
C39_WeakestSingleSignalKept ==
    /\ searched.n > 0
    /\ searched.fts_weight = DefaultFtsWeight
    /\ searched.semantic_weight = DefaultSemanticWeight
    /\ \E i \in DOMAIN searched.results :
          /\ searched.results[i].score = Scale \div 4
          /\ searched.results[i].semantic_score = None

\* ---------------------------------------------- metadata cache properties

\* C38: get(path, mtime) returns the metadata of the most recent set of the
\* path when that set's mtime is mtime, and null otherwise; what
\* parse_session takes from the cache was set for the mtime the file has;
\* the cache file is written only when an entry was set since the last
\* successful save.
C38_GetNeedsTheSetMtime ==
    [][/\ metadata_cache'.got # None
          => LET got == metadata_cache'.got[1]
                 hit == /\ got.key \in DOMAIN got.sets
                        /\ got.sets[got.key].mtime = got.mtime
             IN  /\ got.value # None => hit
                 /\ hit => got.value = Some(got.sets[got.key].metadata)
       /\ metadata_cache'.writes # metadata_cache.writes
          => /\ metadata_cache.unsaved
             /\ metadata_cache'.disk = Some(metadata_cache._data)
       /\ DOMAIN metadata_cache'.disk # DOMAIN metadata_cache.disk
          => metadata_cache'.writes # metadata_cache.writes]_vars

\* The file was parsed and cached, rewritten with another mtime, and the
\* get for the new mtime returned null; the cache had been saved before.
C38_MissAfterRewrite ==
    /\ metadata_cache.got # None
    /\ metadata_cache.got[1].op = "get"
    /\ metadata_cache.got[1].value = None
    /\ "p" \in DOMAIN metadata_cache.got[1].sets
    /\ metadata_cache.got[1].sets["p"].mtime # metadata_cache.got[1].mtime
    /\ metadata_cache.file[1].mtime = metadata_cache.got[1].mtime
    /\ metadata_cache.writes > 0

\* ---------------------------------------------- full-text table properties

\* C35: after any sequence of session and message inserts, upserts of an
\* existing row and deletes (delete_messages_for_session and the cascade of
\* delete_session included), messages_fts and sessions_fts hold exactly the
\* current rows of messages and sessions, and search_messages_fts returns
\* exactly the sessions that own a current message matching the query.
C35_FtsHoldsTheCurrentRows ==
    /\ DOMAIN fts.message_rowid = DOMAIN messages
    /\ DOMAIN fts.session_rowid = DOMAIN sessions
    /\ fts.messages_fts =
         { MessagesFtsEntry(fts.message_rowid[k], messages[k]) : k \in DOMAIN messages }
    /\ fts.sessions_fts =
         { SessionsFtsEntry(fts.session_rowid[k], sessions[k]) : k \in DOMAIN sessions }
    /\ fts.result # None
       => fts.result[1].rows =
            search_messages_fts(messages, ranking.bm25_messages,
                                fts.result[1].query)

\* A message whose content matched the query was deleted or replaced, a
\* current message of one session does not match, one of another session
\* does, and the search returned the session of that one only.
C35_SearchAfterReplacedMessage ==
    /\ fts.result # None
    /\ fts.removed = Some(fts.result[1].query)
    /\ \E k, j \in DOMAIN messages :
          /\ messages[k].content # fts.result[1].query
          /\ messages[j].content = fts.result[1].query
          /\ messages[j].session_id # messages[k].session_id
          /\ DOMAIN fts.result[1].rows = {messages[j].session_id}

====
